---- MODULE Spec2Model ----
(***************************************************************************)
(* A model of aip_otel_exporter (packages/python): the four record mappers *)
(* of manual.py, the span emitter of span_builder.py and the               *)
(* auto-instrumentation adapter of instrumentor.py.                        *)
(*                                                                         *)
(* Python values are tagged records [t |-> <type>, v |-> <payload>]; a     *)
(* dict is a function from its keys to values, so an absent key is a key   *)
(* outside the domain and a key set to None is a key mapped to None.  A    *)
(* raised exception is the value Raise(<type>) and propagates through the  *)
(* operators the way the exception unwinds the Python call.                *)
(***************************************************************************)
EXTENDS Integers, Sequences, FiniteSets, TLC

\* ------------------------------------------------------------------ bounds

\* Longest list (concerns, violations, alerts, values_checked, ...) drawn.
MaxLen == 2

\* Most instrument / uninstrument calls made on the adapter in one behaviour.
MaxOps == 4

\* Most metric recorder calls made on one instrument map in one behaviour.
MaxCalls == 2

\* ------------------------------------------------------------ Python values

None == [t |-> "none"]
PyBool(b) == [t |-> "bool", v |-> b]
PyInt(n) == [t |-> "int", v |-> n]
PyFloat(n) == [t |-> "float", v |-> n]
\* A str is the sequence of its non-empty pieces, so that "" is <<>> and
\* concatenation is \o.
PyStr(s) == [t |-> "str", v |-> IF s = "" THEN <<>> ELSE <<s>>]
PyList(s) == [t |-> "list", v |-> s]
PyDict(f) == [t |-> "dict", v |-> f]
Raise(e) == [t |-> "raise", v |-> e]

EmptyFn == [k \in {} |-> None]
EmptyDict == PyDict(EmptyFn)
EmptyList == PyList(<<>>)

IsRaise(x) == x.t = "raise"
IsNone(x) == x.t = "none"

\* bool(x): None, False, 0, 0.0, "", [] and {} are falsy.
Truthy(x) ==
    CASE x.t = "none" -> FALSE
      [] x.t = "bool" -> x.v
      [] x.t = "int" -> x.v # 0
      [] x.t = "float" -> x.v # 0
      [] x.t = "str" -> x.v # <<>>
      [] x.t = "list" -> Len(x.v) > 0
      [] x.t = "dict" -> DOMAIN x.v # {}
      [] OTHER -> TRUE

\* d.get(k): None for a key the dict lacks; AttributeError when d is no dict.
Get(d, k) ==
    IF IsRaise(d) THEN d
    ELSE IF d.t # "dict" THEN Raise("AttributeError")
    ELSE IF k \in DOMAIN d.v THEN d.v[k] ELSE None

\* d.get(k, default)
GetDefault(d, k, default) ==
    IF IsRaise(d) THEN d
    ELSE IF d.t # "dict" THEN Raise("AttributeError")
    ELSE IF k \in DOMAIN d.v THEN d.v[k] ELSE default

\* d[k]
Subscript(d, k) ==
    IF IsRaise(d) THEN d
    ELSE IF d.t # "dict" THEN Raise("TypeError")
    ELSE IF k \in DOMAIN d.v THEN d.v[k] ELSE Raise("KeyError")

\* Mutant: the "or {}" fallback left out.
Or_dropped(x, y) == x

\* x or y
Or(x, y) == IF IsRaise(x) THEN x ELSE IF Truthy(x) THEN x ELSE y

\* len(x)
PyLen(x) ==
    CASE x.t = "raise" -> x
      [] x.t = "list" -> PyInt(Len(x.v))
      [] x.t = "dict" -> PyInt(Cardinality(DOMAIN x.v))
      [] OTHER -> Raise("TypeError")

\* The first exception raised by a sequence of evaluations, None when none is.
FirstRaise(xs) ==
    IF \E i \in DOMAIN xs : IsRaise(xs[i])
    THEN xs[CHOOSE i \in DOMAIN xs :
              IsRaise(xs[i]) /\ \A j \in 1..(i - 1) : ~IsRaise(xs[j])]
    ELSE None

\* A dict literal / incrementally filled dict: the pairs <<key, value>> in
\* insertion order, a later pair overwriting an earlier one with its key.
DictOf(pairs) ==
    PyDict([k \in {pairs[i][1] : i \in DOMAIN pairs} |->
              pairs[CHOOSE i \in DOMAIN pairs :
                        /\ pairs[i][1] = k
                        /\ \A j \in DOMAIN pairs : pairs[j][1] = k => j <= i][2]])

\* ------------------------------------------------- attributes.py constants

AIP_INTEGRITY_CHECKPOINT_ID == "aip.integrity.checkpoint_id"
AIP_INTEGRITY_VERDICT == "aip.integrity.verdict"
AIP_INTEGRITY_PROCEED == "aip.integrity.proceed"
AIP_INTEGRITY_RECOMMENDED_ACTION == "aip.integrity.recommended_action"
AIP_INTEGRITY_CONCERNS_COUNT == "aip.integrity.concerns_count"
AIP_INTEGRITY_AGENT_ID == "aip.integrity.agent_id"
AIP_INTEGRITY_CARD_ID == "aip.integrity.card_id"
AIP_INTEGRITY_SESSION_ID == "aip.integrity.session_id"
AIP_INTEGRITY_THINKING_HASH == "aip.integrity.thinking_hash"
AIP_INTEGRITY_ANALYSIS_MODEL == "aip.integrity.analysis_model"
AIP_INTEGRITY_ANALYSIS_DURATION_MS == "aip.integrity.analysis_duration_ms"
AIP_INTEGRITY_THINKING_TOKENS == "aip.integrity.thinking_tokens"
AIP_INTEGRITY_TRUNCATED == "aip.integrity.truncated"
AIP_INTEGRITY_EXTRACTION_CONFIDENCE == "aip.integrity.extraction_confidence"
AIP_CONSCIENCE_CONSULTATION_DEPTH == "aip.conscience.consultation_depth"
AIP_CONSCIENCE_VALUES_CHECKED_COUNT == "aip.conscience.values_checked_count"
AIP_CONSCIENCE_CONFLICTS_COUNT == "aip.conscience.conflicts_count"
AIP_WINDOW_SIZE == "aip.window.size"
AIP_WINDOW_INTEGRITY_RATIO == "aip.window.integrity_ratio"
AIP_WINDOW_DRIFT_ALERT_ACTIVE == "aip.window.drift_alert_active"
GEN_AI_EVALUATION_VERDICT == "gen_ai.evaluation.verdict"
GEN_AI_EVALUATION_SCORE == "gen_ai.evaluation.score"
AAP_VERIFICATION_RESULT == "aap.verification.result"
AAP_VERIFICATION_SIMILARITY_SCORE == "aap.verification.similarity_score"
AAP_VERIFICATION_VIOLATIONS_COUNT == "aap.verification.violations_count"
AAP_VERIFICATION_WARNINGS_COUNT == "aap.verification.warnings_count"
AAP_VERIFICATION_TRACE_ID == "aap.verification.trace_id"
AAP_VERIFICATION_CARD_ID == "aap.verification.card_id"
AAP_VERIFICATION_DURATION_MS == "aap.verification.duration_ms"
AAP_VERIFICATION_CHECKS_PERFORMED == "aap.verification.checks_performed"
AAP_COHERENCE_COMPATIBLE == "aap.coherence.compatible"
AAP_COHERENCE_SCORE == "aap.coherence.score"
AAP_COHERENCE_PROCEED == "aap.coherence.proceed"
AAP_COHERENCE_MATCHED_COUNT == "aap.coherence.matched_count"
AAP_COHERENCE_CONFLICT_COUNT == "aap.coherence.conflict_count"
AAP_DRIFT_ALERTS_COUNT == "aap.drift.alerts_count"
AAP_DRIFT_TRACES_ANALYZED == "aap.drift.traces_analyzed"

SPAN_AIP_INTEGRITY_CHECK == "aip.integrity_check"
SPAN_AAP_VERIFY_TRACE == "aap.verify_trace"
SPAN_AAP_CHECK_COHERENCE == "aap.check_coherence"
SPAN_AAP_DETECT_DRIFT == "aap.detect_drift"

EVENT_AIP_CONCERN == "aip.concern"
EVENT_AIP_DRIFT_ALERT == "aip.drift_alert"
EVENT_AAP_VIOLATION == "aap.violation"
EVENT_AAP_DRIFT_ALERT == "aap.drift_alert"

METRIC_AIP_INTEGRITY_CHECKS_TOTAL == "aip.integrity_checks.total"
METRIC_AIP_CONCERNS_TOTAL == "aip.concerns.total"
METRIC_AIP_ANALYSIS_DURATION == "aip.analysis.duration_ms"
METRIC_AIP_WINDOW_INTEGRITY_RATIO == "aip.window.integrity_ratio"
METRIC_AIP_DRIFT_ALERTS_TOTAL == "aip.drift_alerts.total"
METRIC_AAP_VERIFICATIONS_TOTAL == "aap.verifications.total"
METRIC_AAP_VIOLATIONS_TOTAL == "aap.violations.total"
METRIC_AAP_VERIFICATION_DURATION == "aap.verification.duration_ms"
METRIC_AAP_COHERENCE_SCORE == "aap.coherence.score"

\* ------------------------------------------------------- span_builder.py
\* A span is the log of the calls made on it through the tracing API, in
\* order: start_span, set_attribute*, add_event*, set_status, end.

SpanOf(calls) == [t |-> "span", v |-> calls]
IsSpan(x) == x.t = "span"

StartSpan(span_name) ==
    <<[call |-> "start_span", name |-> PyStr(span_name), kind |-> "INTERNAL"]>>

SetAttribute(key, value) == [call |-> "set_attribute", key |-> key, value |-> value]

AddEvent(name, attributes) == [call |-> "add_event", name |-> name, attributes |-> attributes]

\* Mutant: "if value:" for "if value is not None:", which drops False, 0
\* and "".
set_optional_attributes_truthy(span, attrs) ==
    LET kept == SelectSeq(attrs, LAMBDA kv : Truthy(kv[2]))
    IN  span \o [i \in DOMAIN kept |-> SetAttribute(kept[i][1], kept[i][2])]

\* for key, value in attrs.items(): if value is not None: span.set_attribute(key, value)
set_optional_attributes(span, attrs) ==
    LET kept == SelectSeq(attrs, LAMBDA kv : ~IsNone(kv[2]))
    IN  span \o [i \in DOMAIN kept |-> SetAttribute(kept[i][1], kept[i][2])]

\* Mutant: the span is ended without span.set_status, which leaves its
\* status unset.
build_span_no_status(span_name, attributes, events) ==
    LET withAttrs == set_optional_attributes(StartSpan(span_name), attributes)
        added == IF Truthy(events)
                 THEN [i \in DOMAIN events.v |->
                          AddEvent(Subscript(events.v[i], "name"),
                                   GetDefault(events.v[i], "attributes", EmptyDict))]
                 ELSE <<>>
    IN  SpanOf(withAttrs \o added \o <<[call |-> "end"]>>)

\* Mutant: span.end() placed before span.set_status(...).
build_span_end_first(span_name, attributes, events) ==
    LET withAttrs == set_optional_attributes(StartSpan(span_name), attributes)
        added == IF Truthy(events)
                 THEN [i \in DOMAIN events.v |->
                          AddEvent(Subscript(events.v[i], "name"),
                                   GetDefault(events.v[i], "attributes", EmptyDict))]
                 ELSE <<>>
    IN  SpanOf(withAttrs \o added
                 \o <<[call |-> "end"], [call |-> "set_status", status |-> "OK"]>>)

\* Mutant: the event loop skips the first event.
build_span_skips_event(span_name, attributes, events) ==
    LET withAttrs == set_optional_attributes(StartSpan(span_name), attributes)
        added == IF Truthy(events)
                 THEN [i \in 1..(Len(events.v) - 1) |->
                          AddEvent(Subscript(events.v[i + 1], "name"),
                                   GetDefault(events.v[i + 1], "attributes", EmptyDict))]
                 ELSE <<>>
    IN  SpanOf(withAttrs \o added
                 \o <<[call |-> "set_status", status |-> "OK"], [call |-> "end"]>>)

\* attributes: the dict as the sequence of its <<key, value>> items;
\* events: None or a list of {"name": ..., "attributes": ...} dicts.
build_span(span_name, attributes, events) ==
    LET started == StartSpan(span_name)
        withAttrs == set_optional_attributes(started, attributes)
        added == IF Truthy(events)
                 THEN [i \in DOMAIN events.v |->
                          AddEvent(Subscript(events.v[i], "name"),
                                   GetDefault(events.v[i], "attributes", EmptyDict))]
                 ELSE <<>>
    IN  SpanOf(withAttrs \o added
                 \o <<[call |-> "set_status", status |-> "OK"], [call |-> "end"]>>)

\* ---------------------------------------------------------------- manual.py

\* Mutant: "len(x) if x else None", which drops the count of an empty list.
CountOrNone_truthy(x) == IF IsRaise(x) THEN x ELSE IF Truthy(x) THEN PyLen(x) ELSE None

\* len(x) if x is not None else None
\* Mutant: len(x or []), which counts a missing list as 0.
CountOrNone_zero(x) == IF IsNone(x) THEN PyInt(0) ELSE PyLen(x)

CountOrNone(x) == IF IsNone(x) THEN None ELSE PyLen(x)

\* {"name": name, "attributes": attributes}, or the exception raised while
\* the attribute values were evaluated.
EventDict(name, attrPairs) ==
    LET exc == FirstRaise([i \in DOMAIN attrPairs |-> attrPairs[i][2]])
    IN  IF IsRaise(exc) THEN exc
        ELSE DictOf(<< <<"name", PyStr(name)>>, <<"attributes", DictOf(attrPairs)>> >>)

\* Mutant: a concern's sub-field copied only when the concern has it, the
\* policy of the drift events.
ConcernEvent_omits(concern) ==
    IF concern.t # "dict" THEN Raise("AttributeError")
    ELSE EventDict(EVENT_AIP_CONCERN,
                   SelectSeq(<< <<"category", Get(concern, "category")>>,
                                <<"severity", Get(concern, "severity")>>,
                                <<"description", Get(concern, "description")>> >>,
                             LAMBDA kv : ~IsNone(kv[2])))

\* The body of "for concern in concerns: events.append({...})".
ConcernEvent(concern) ==
    EventDict(EVENT_AIP_CONCERN,
              << <<"category", GetDefault(concern, "category", PyStr(""))>>,
                 <<"severity", GetDefault(concern, "severity", PyStr(""))>>,
                 <<"description", GetDefault(concern, "description", PyStr(""))>> >>)

\* The body of "for violation in violations: events.append({...})".
ViolationEvent(violation) ==
    EventDict(EVENT_AAP_VIOLATION,
              << <<"type", GetDefault(violation, "type", PyStr(""))>>,
                 <<"severity", GetDefault(violation, "severity", PyStr(""))>>,
                 <<"description", GetDefault(violation, "description", PyStr(""))>> >>)

\* The events appended from the last concern to the first.
ConcernEvents_reversed(concerns) ==
    IF IsRaise(concerns) THEN <<concerns>>
    ELSE IF ~Truthy(concerns) THEN <<>>
    ELSE IF concerns.t # "list" THEN <<Raise("AttributeError")>>
    ELSE [i \in DOMAIN concerns.v |->
             ConcernEvent(concerns.v[Len(concerns.v) + 1 - i])]

\* "if concerns: for concern in concerns: events.append({...})": the events
\* appended, or a one-element sequence holding the exception that stops the
\* loop.
ConcernEvents(concerns) ==
    IF IsRaise(concerns) THEN <<concerns>>
    ELSE IF ~Truthy(concerns) THEN <<>>
    ELSE IF concerns.t # "list" THEN <<Raise("AttributeError")>>
    ELSE [i \in DOMAIN concerns.v |-> ConcernEvent(concerns.v[i])]

\* "if violations: for violation in violations: events.append({...})"
ViolationEvents(violations) ==
    IF IsRaise(violations) THEN <<violations>>
    ELSE IF ~Truthy(violations) THEN <<>>
    ELSE IF violations.t # "list" THEN <<Raise("AttributeError")>>
    ELSE [i \in DOMAIN violations.v |-> ViolationEvent(violations.v[i])]

\* The mapper's result: the exception of the first evaluation that raised,
\* else the span build_span returns.
Emit(evaluated, span_name, attributes, events) ==
    LET exc == FirstRaise(evaluated \o [i \in DOMAIN attributes |-> attributes[i][2]]
                            \o events)
    IN  IF IsRaise(exc) THEN exc
        ELSE build_span(span_name, attributes, PyList(events))

\* Mutant: "is not None" for the truth test, which adds the event for
\* drift_alert_active = False.
DriftActiveEvents_not_none(active) ==
    IF IsRaise(active) THEN <<active>>
    ELSE IF ~IsNone(active) THEN <<EventDict(EVENT_AIP_DRIFT_ALERT, <<>>)>>
    ELSE <<>>

\* "if win.get("drift_alert_active"): events.append({"name": ...,
\* "attributes": {}})": the events appended.
DriftActiveEvents(active) ==
    IF IsRaise(active) THEN <<active>>
    ELSE IF Truthy(active) THEN <<EventDict(EVENT_AIP_DRIFT_ALERT, <<>>)>>
    ELSE <<>>

\* Mutant: the verdict alias given the "unknown" default the metrics use.
GenAiAliases_defaulted(cp, win) ==
    << <<GEN_AI_EVALUATION_VERDICT, Or(Get(cp, "verdict"), PyStr("unknown"))>>,
       <<GEN_AI_EVALUATION_SCORE, Get(win, "integrity_ratio")>> >>

\* Mutant: the score alias left out of the attributes dict.
GenAiAliases_no_score(cp, win) ==
    << <<GEN_AI_EVALUATION_VERDICT, Get(cp, "verdict")>> >>

\* The GenAI SIG forward-compat aliases, the last two items of the
\* attributes dict.
GenAiAliases(cp, win) ==
    << <<GEN_AI_EVALUATION_VERDICT, Get(cp, "verdict")>>,
       <<GEN_AI_EVALUATION_SCORE, Get(win, "integrity_ratio")>> >>

record_integrity_check(signal) ==
    LET sig == Or(signal, EmptyDict)
        cp == Or(Get(sig, "checkpoint"), EmptyDict)
        meta == Or(Get(cp, "analysis_metadata"), EmptyDict)
        conscience == Or(Get(cp, "conscience_context"), EmptyDict)
        win == Or(Get(sig, "window_summary"), EmptyDict)
        concerns == Get(cp, "concerns")
        values_checked == Get(conscience, "values_checked")
        conflicts == Get(conscience, "conflicts")
        attributes ==
            << <<AIP_INTEGRITY_CHECKPOINT_ID, Get(cp, "checkpoint_id")>>,
               <<AIP_INTEGRITY_VERDICT, Get(cp, "verdict")>>,
               <<AIP_INTEGRITY_AGENT_ID, Get(cp, "agent_id")>>,
               <<AIP_INTEGRITY_CARD_ID, Get(cp, "card_id")>>,
               <<AIP_INTEGRITY_SESSION_ID, Get(cp, "session_id")>>,
               <<AIP_INTEGRITY_THINKING_HASH, Get(cp, "thinking_block_hash")>>,
               <<AIP_INTEGRITY_PROCEED, Get(sig, "proceed")>>,
               <<AIP_INTEGRITY_RECOMMENDED_ACTION, Get(sig, "recommended_action")>>,
               <<AIP_INTEGRITY_CONCERNS_COUNT, CountOrNone(concerns)>>,
               <<AIP_INTEGRITY_ANALYSIS_MODEL, Get(meta, "analysis_model")>>,
               <<AIP_INTEGRITY_ANALYSIS_DURATION_MS, Get(meta, "analysis_duration_ms")>>,
               <<AIP_INTEGRITY_THINKING_TOKENS, Get(meta, "thinking_tokens_original")>>,
               <<AIP_INTEGRITY_TRUNCATED, Get(meta, "truncated")>>,
               <<AIP_INTEGRITY_EXTRACTION_CONFIDENCE, Get(meta, "extraction_confidence")>>,
               <<AIP_CONSCIENCE_CONSULTATION_DEPTH, Get(conscience, "consultation_depth")>>,
               <<AIP_CONSCIENCE_VALUES_CHECKED_COUNT, CountOrNone(values_checked)>>,
               <<AIP_CONSCIENCE_CONFLICTS_COUNT, CountOrNone(conflicts)>>,
               <<AIP_WINDOW_SIZE, Get(win, "size")>>,
               <<AIP_WINDOW_INTEGRITY_RATIO, Get(win, "integrity_ratio")>>,
               <<AIP_WINDOW_DRIFT_ALERT_ACTIVE, Get(win, "drift_alert_active")>> >>
              \o GenAiAliases(cp, win)
        events ==
            ConcernEvents(concerns) \o DriftActiveEvents(Get(win, "drift_alert_active"))
    IN  Emit(<<cp, meta, conscience, win, concerns, values_checked, conflicts>>,
             SPAN_AIP_INTEGRITY_CHECK, attributes, events)

\* Mutant: ",".join for ", ".join.
Join_no_space(xs) ==
    IF xs.t # "list" THEN Raise("TypeError")
    ELSE IF \E i \in DOMAIN xs.v : xs.v[i].t # "str" THEN Raise("TypeError")
    ELSE [t |-> "str",
          v |-> [k \in 1..(2 * Len(xs.v) - 1) |->
                   IF k % 2 = 1 THEN xs.v[(k + 1) \div 2].v[1] ELSE ","]]

RECURSIVE JoinFrom(_, _)
JoinFrom(strs, i) ==
    IF i > Len(strs) THEN <<>>
    ELSE (IF i > 1 THEN <<", ">> ELSE <<>>) \o strs[i].v \o JoinFrom(strs, i + 1)

\* ", ".join(xs)
Join(xs) ==
    IF xs.t # "list" THEN Raise("TypeError")
    ELSE IF \E i \in DOMAIN xs.v : xs.v[i].t # "str" THEN Raise("TypeError")
    ELSE [t |-> "str", v |-> JoinFrom(xs.v, 1)]

record_verification(result_in) ==
    LET result == Or(result_in, EmptyDict)
        meta == Or(Get(result, "verification_metadata"), EmptyDict)
        violations == Get(result, "violations")
        warnings == Get(result, "warnings")
        checks_performed == Get(meta, "checks_performed")
        attributes ==
            << <<AAP_VERIFICATION_RESULT, Get(result, "verified")>>,
               <<AAP_VERIFICATION_SIMILARITY_SCORE, Get(result, "similarity_score")>>,
               <<AAP_VERIFICATION_VIOLATIONS_COUNT, CountOrNone(violations)>>,
               <<AAP_VERIFICATION_WARNINGS_COUNT, CountOrNone(warnings)>>,
               <<AAP_VERIFICATION_TRACE_ID, Get(result, "trace_id")>>,
               <<AAP_VERIFICATION_CARD_ID, Get(result, "card_id")>>,
               <<AAP_VERIFICATION_DURATION_MS, Get(meta, "duration_ms")>>,
               <<AAP_VERIFICATION_CHECKS_PERFORMED,
                 IF IsRaise(checks_performed) THEN checks_performed
                 ELSE IF Truthy(checks_performed) THEN Join(checks_performed)
                 ELSE None>> >>
        events == ViolationEvents(violations)
    IN  Emit(<<result, meta, violations, warnings, checks_performed>>,
             SPAN_AAP_VERIFY_TRACE, attributes, events)

record_coherence(result_in) ==
    LET result == Or(result_in, EmptyDict)
        value_alignment == Or(Get(result, "value_alignment"), EmptyDict)
        matched == Get(value_alignment, "matched")
        conflicts == Get(value_alignment, "conflicts")
        attributes ==
            << <<AAP_COHERENCE_COMPATIBLE, Get(result, "compatible")>>,
               <<AAP_COHERENCE_SCORE, Get(result, "score")>>,
               <<AAP_COHERENCE_PROCEED, Get(result, "proceed")>>,
               <<AAP_COHERENCE_MATCHED_COUNT, CountOrNone(matched)>>,
               <<AAP_COHERENCE_CONFLICT_COUNT, CountOrNone(conflicts)>> >>
        exc == FirstRaise(<<result, value_alignment, matched, conflicts>>
                            \o [i \in DOMAIN attributes |-> attributes[i][2]])
    IN  IF IsRaise(exc) THEN exc
        ELSE build_span(SPAN_AAP_CHECK_COHERENCE, attributes, None)

\* "if d.get(k) is not None: event_attrs[name] = d[k]" as the pairs it adds.
SetIfPresent(d, k, name) ==
    LET x == Get(d, k)
    IN  IF IsRaise(x) THEN << <<name, x>> >>
        ELSE IF IsNone(x) THEN <<>>
        ELSE << <<name, Subscript(d, k)>> >>

\* Mutant: "if d.get(k):" for "if d.get(k) is not None:", which drops a
\* similarity_score of 0 and an empty string.
SetIfTruthy(d, k, name) ==
    LET x == Get(d, k)
    IN  IF IsRaise(x) THEN << <<name, x>> >>
        ELSE IF ~Truthy(x) THEN <<>>
        ELSE << <<name, Subscript(d, k)>> >>

DriftAlertEvent_truthy(alert) ==
    LET analysis == Or(Get(alert, "analysis"), EmptyDict)
    IN  IF IsRaise(analysis) THEN analysis
        ELSE EventDict(EVENT_AAP_DRIFT_ALERT,
                 SetIfTruthy(alert, "alert_type", "alert_type")
                   \o SetIfTruthy(alert, "agent_id", "agent_id")
                   \o SetIfTruthy(alert, "card_id", "card_id")
                   \o SetIfTruthy(analysis, "similarity_score", "similarity_score")
                   \o SetIfTruthy(analysis, "drift_direction", "drift_direction")
                   \o SetIfTruthy(alert, "recommendation", "recommendation"))

\* The body of "for alert in alerts:" in record_drift.
DriftAlertEvent(alert) ==
    LET analysis == Or(Get(alert, "analysis"), EmptyDict)
    IN  IF IsRaise(analysis) THEN analysis
        ELSE EventDict(EVENT_AAP_DRIFT_ALERT,
                 SetIfPresent(alert, "alert_type", "alert_type")
                   \o SetIfPresent(alert, "agent_id", "agent_id")
                   \o SetIfPresent(alert, "card_id", "card_id")
                   \o SetIfPresent(analysis, "similarity_score", "similarity_score")
                   \o SetIfPresent(analysis, "drift_direction", "drift_direction")
                   \o SetIfPresent(alert, "recommendation", "recommendation"))

\* Mutant: the count left out for an empty list, as the other mappers'
\* counts are for a missing one.
AlertsCount_omits_empty(alerts) ==
    IF IsRaise(alerts) THEN alerts
    ELSE IF Truthy(alerts) THEN PyLen(alerts) ELSE None

\* len(alerts) if alerts else 0
AlertsCount(alerts) ==
    IF IsRaise(alerts) THEN alerts
    ELSE IF Truthy(alerts) THEN PyLen(alerts) ELSE PyInt(0)

record_drift(alerts_in, traces_analyzed) ==
    LET alerts == Or(alerts_in, EmptyList)
        attributes ==
            << <<AAP_DRIFT_ALERTS_COUNT, AlertsCount(alerts)>>,
               <<AAP_DRIFT_TRACES_ANALYZED, traces_analyzed>> >>
        events ==
            IF IsRaise(alerts) THEN <<alerts>>
            ELSE IF alerts.t # "list" THEN <<Raise("AttributeError")>>
            ELSE [i \in DOMAIN alerts.v |-> DriftAlertEvent(alerts.v[i])]
    IN  Emit(<<alerts>>, SPAN_AAP_DETECT_DRIFT, attributes, events)

\* --------------------------------------------------------------- metrics.py
\* An instrument is what the meter was asked to create: its kind, name,
\* description and unit, and the meter it belongs to.

\* metrics.get_meter("aip-otel-exporter", **kwargs): the meter_provider
\* keyword is passed only when the argument is not None.
get_meter(meter_provider) ==
    [name |-> "aip-otel-exporter",
     provider |-> IF IsNone(meter_provider) THEN "global" ELSE meter_provider.v]

\* meter.create_counter(name, description=...)
create_counter(meter, name, description) ==
    [t |-> "instrument",
     v |-> [kind |-> "counter", name |-> name, description |-> description,
            unit |-> "", meter |-> meter]]

\* meter.create_histogram(name, description=..., unit=...)
create_histogram(meter, name, description, unit) ==
    [t |-> "instrument",
     v |-> [kind |-> "histogram", name |-> name, description |-> description,
            unit |-> unit, meter |-> meter]]

\* Mutant: the coherence_score histogram left out of the dict.
InstrumentItems_no_coherence(meter) ==
    << <<"integrity_checks",
         create_counter(meter, METRIC_AIP_INTEGRITY_CHECKS_TOTAL,
                        "Total AIP integrity checks")>>,
       <<"concerns",
         create_counter(meter, METRIC_AIP_CONCERNS_TOTAL, "Total AIP concerns raised")>>,
       <<"analysis_duration",
         create_histogram(meter, METRIC_AIP_ANALYSIS_DURATION,
                          "AIP analysis duration in ms", "ms")>>,
       <<"integrity_ratio",
         create_histogram(meter, METRIC_AIP_WINDOW_INTEGRITY_RATIO,
                          "Window integrity ratio", "")>>,
       <<"drift_alerts",
         create_counter(meter, METRIC_AIP_DRIFT_ALERTS_TOTAL, "Total drift alerts")>>,
       <<"verifications",
         create_counter(meter, METRIC_AAP_VERIFICATIONS_TOTAL, "Total AAP verifications")>>,
       <<"violations",
         create_counter(meter, METRIC_AAP_VIOLATIONS_TOTAL, "Total AAP violations")>>,
       <<"verification_duration",
         create_histogram(meter, METRIC_AAP_VERIFICATION_DURATION,
                          "AAP verification duration in ms", "ms")>> >>

\* The items of the dict literal create_aip_metrics returns, in the order
\* they are evaluated: each value is one create_counter or create_histogram
\* call on the meter.
InstrumentItems(meter) ==
    << <<"integrity_checks",
         create_counter(meter, METRIC_AIP_INTEGRITY_CHECKS_TOTAL,
                        "Total AIP integrity checks")>>,
       <<"concerns",
         create_counter(meter, METRIC_AIP_CONCERNS_TOTAL, "Total AIP concerns raised")>>,
       <<"analysis_duration",
         create_histogram(meter, METRIC_AIP_ANALYSIS_DURATION,
                          "AIP analysis duration in ms", "ms")>>,
       <<"integrity_ratio",
         create_histogram(meter, METRIC_AIP_WINDOW_INTEGRITY_RATIO,
                          "Window integrity ratio", "")>>,
       <<"drift_alerts",
         create_counter(meter, METRIC_AIP_DRIFT_ALERTS_TOTAL, "Total drift alerts")>>,
       <<"verifications",
         create_counter(meter, METRIC_AAP_VERIFICATIONS_TOTAL, "Total AAP verifications")>>,
       <<"violations",
         create_counter(meter, METRIC_AAP_VIOLATIONS_TOTAL, "Total AAP violations")>>,
       <<"verification_duration",
         create_histogram(meter, METRIC_AAP_VERIFICATION_DURATION,
                          "AAP verification duration in ms", "ms")>>,
       <<"coherence_score",
         create_histogram(meter, METRIC_AAP_COHERENCE_SCORE, "AAP coherence score", "")>> >>

\* create_aip_metrics(meter_provider): the dict returned and, in order, the
\* instruments the meter was asked to create.
create_aip_metrics(meter_provider) ==
    LET items == InstrumentItems(get_meter(meter_provider))
    IN  [returned |-> DictOf(items),
         created |-> [i \in DOMAIN items |-> items[i][2]]]

\* One step of a recorder: a measurement, an exception, or nothing.
Skip == [t |-> "skip"]

\* An expression evaluated on the way: nothing, or the exception it raises.
Eval(x) == IF IsRaise(x) THEN x ELSE Skip

\* metrics_dict[key].add(value, labels) / metrics_dict[key].record(value,
\* labels): the measurement made on the instrument, labels being None when
\* the call passes none.
Measure(metrics_dict, key, call, value, labels) ==
    IF IsRaise(value) THEN value
    ELSE IF metrics_dict.t # "dict" THEN Raise("TypeError")
    ELSE IF key \notin DOMAIN metrics_dict.v THEN Raise("KeyError")
    ELSE IF (call = "add") # (metrics_dict.v[key].v.kind = "counter")
    THEN Raise("AttributeError")
    ELSE [t |-> "measurement",
          v |-> [instrument |-> metrics_dict.v[key].v.name, call |-> call,
                 value |-> value, labels |-> labels]]

\* The steps of a recorder run in order up to the first exception: the
\* measurements made and what the call returns (None) or raises.
Run(steps) ==
    LET stop == IF \E i \in DOMAIN steps : IsRaise(steps[i])
                THEN CHOOSE i \in DOMAIN steps :
                         IsRaise(steps[i]) /\ \A j \in 1..(i - 1) : ~IsRaise(steps[j])
                ELSE Len(steps) + 1
        ran == SubSeq(steps, 1, stop - 1)
        kept == SelectSeq(ran, LAMBDA x : x.t = "measurement")
    IN  [made |-> [i \in DOMAIN kept |-> kept[i].v],
         out |-> IF stop <= Len(steps) THEN steps[stop] ELSE None]

\* A truth test in place of the None test: a value of 0 counts as missing.
IsNotNone_truthy(x) == ~IsRaise(x) /\ Truthy(x)

\* No test at all: a None value counts as present.
IsNotNone_always(x) == ~IsRaise(x)

\* x is not None
IsNotNone(x) == ~IsRaise(x) /\ ~IsNone(x)

\* Every check counted under one label set, whatever its verdict.
VerdictLabels_unlabelled(verdict) == EmptyDict

\* {"verdict": verdict}
VerdictLabels(verdict) == DictOf(<< <<"verdict", verdict>> >>)

record_integrity_metrics(metrics_dict, signal_in) ==
    LET signal == Or(signal_in, EmptyDict)
        cp == Or(Get(signal, "checkpoint"), EmptyDict)
        meta == Or(Get(cp, "analysis_metadata"), EmptyDict)
        win == Or(Get(signal, "window_summary"), EmptyDict)
        verdict == Or(Get(cp, "verdict"), PyStr("unknown"))
        concerns == Get(cp, "concerns")
        duration == Get(meta, "analysis_duration_ms")
        ratio == Get(win, "integrity_ratio")
        active == Get(win, "drift_alert_active")
    IN  Run(<<Eval(signal), Eval(cp), Eval(meta), Eval(win), Eval(verdict),
              Measure(metrics_dict, "integrity_checks", "add", PyInt(1),
                      VerdictLabels(verdict)),
              Eval(concerns),
              IF ~IsRaise(concerns) /\ Truthy(concerns)
              THEN Measure(metrics_dict, "concerns", "add", PyLen(concerns),
                           VerdictLabels(verdict))
              ELSE Skip,
              Eval(duration),
              IF IsNotNone(duration)
              THEN Measure(metrics_dict, "analysis_duration", "record", duration,
                           VerdictLabels(verdict))
              ELSE Skip,
              Eval(ratio),
              IF IsNotNone(ratio)
              THEN Measure(metrics_dict, "integrity_ratio", "record", ratio, None)
              ELSE Skip,
              Eval(active),
              IF ~IsRaise(active) /\ Truthy(active)
              THEN Measure(metrics_dict, "drift_alerts", "add", PyInt(1), None)
              ELSE Skip>>)

\* "pass" if verified else "fail": a two-way label.
ResultLabel_two_way(verified) ==
    IF IsRaise(verified) THEN verified
    ELSE IF Truthy(verified) THEN PyStr("pass")
    ELSE PyStr("fail")

\* "pass" if verified else "fail" if verified is not None else "unknown"
ResultLabel(verified) ==
    IF IsRaise(verified) THEN verified
    ELSE IF Truthy(verified) THEN PyStr("pass")
    ELSE IF ~IsNone(verified) THEN PyStr("fail")
    ELSE PyStr("unknown")

\* {"result": result_label}
ResultLabels(result_label) == DictOf(<< <<"result", result_label>> >>)

record_verification_metrics(metrics_dict, result_in) ==
    LET result == Or(result_in, EmptyDict)
        meta == Or(Get(result, "verification_metadata"), EmptyDict)
        verified == Get(result, "verified")
        result_label == ResultLabel(verified)
        violations == Get(result, "violations")
        duration == Get(meta, "duration_ms")
        score == Get(result, "score")
    IN  Run(<<Eval(result), Eval(meta), Eval(verified),
              Measure(metrics_dict, "verifications", "add", PyInt(1),
                      ResultLabels(result_label)),
              Eval(violations),
              IF ~IsRaise(violations) /\ Truthy(violations)
              THEN Measure(metrics_dict, "violations", "add", PyLen(violations),
                           ResultLabels(result_label))
              ELSE Skip,
              Eval(duration),
              IF IsNotNone(duration)
              THEN Measure(metrics_dict, "verification_duration", "record", duration,
                           ResultLabels(result_label))
              ELSE Skip,
              Eval(score),
              IF IsNotNone(score)
              THEN Measure(metrics_dict, "coherence_score", "record", score, None)
              ELSE Skip>>)

\* The meter_provider argument: left at None, or a provider.
MeterProviders == {None, [t |-> "MeterProvider", v |-> "provider"]}

\* ------------------------------------------------------------ input records
\* The records handed to the mappers: every field is optional (types.py,
\* total=False), so a field is absent, None, a falsy value of its type or a
\* truthy one, and a nested object is absent, None, {} or filled.

Absent == [t |-> "absent"]

ParentModes == {"absent", "null", "empty", "full"}
ScalarModes == {"absent", "null", "falsy", "truthy"}

\* The dict holding the pairs whose value is not the Absent marker.
MkDict(pairs) == DictOf(SelectSeq(pairs, LAMBDA kv : kv[2].t # "absent"))

Field(m, name, falsy, truthy) ==
    <<name, CASE m[name] = "absent" -> Absent
              [] m[name] = "null" -> None
              [] m[name] = "falsy" -> falsy
              [] m[name] = "truthy" -> truthy>>

Parent(mode, full) ==
    CASE mode = "absent" -> Absent
      [] mode = "null" -> None
      [] mode = "empty" -> EmptyDict
      [] mode = "full" -> full

\* Absent, None, or a list of at most MaxLen entries drawn from elems.
ListChoices(elems) ==
    {Absent, None} \cup
        {PyList(s) : s \in UNION {[1..n -> elems] : n \in 0..MaxLen}}

Uniform(fields, mode) == [f \in fields |-> mode]

\* Every field in mode sm, but for one field in mode om.
OddOneOut(fields) ==
    {[Uniform(fields, sm) EXCEPT ![f] = om] :
        f \in fields, sm \in ScalarModes, om \in ScalarModes}

\* types.py ConcernInput / ViolationInput entries (the first key is
\* "category" for a concern and "type" for a violation), and a None entry.
EntryFields(first) == {first, "severity", "description"}

Entry(first, m) ==
    MkDict(<<Field(m, first, PyStr(""), PyStr(first)),
             Field(m, "severity", PyStr(""), PyStr("severity")),
             Field(m, "description", PyStr(""), PyStr("description"))>>)

Entries(first) ==
    {None} \cup {Entry(first, Uniform(EntryFields(first), sm)) : sm \in ScalarModes}
           \cup {Entry(first, [Uniform(EntryFields(first), "absent")
                                 EXCEPT ![first] = "truthy"])}

\* A list of n entries with every sub-field filled.
FullEntries(first, n) ==
    PyList([i \in 1..n |-> Entry(first, Uniform(EntryFields(first), "truthy"))])

StrList(n) == PyList([i \in 1..n |-> PyStr(IF i % 2 = 1 THEN "a" ELSE "b")])

\* Absent, None, or a list of at most MaxLen strings.
StrLists == {Absent, None} \cup {StrList(n) : n \in 0..MaxLen}

IntegrityFields ==
    {"checkpoint_id", "verdict", "agent_id", "card_id", "session_id",
     "thinking_block_hash", "proceed", "recommended_action", "analysis_model",
     "analysis_duration_ms", "thinking_tokens_original", "truncated",
     "extraction_confidence", "consultation_depth", "size", "integrity_ratio",
     "drift_alert_active"}

IntegrityParents == {"checkpoint", "analysis_metadata", "conscience_context",
                     "window_summary"}

\* types.py IntegritySignalInput: p gives the mode of each nested object, m
\* the mode of each scalar field, and concerns, values_checked and conflicts
\* are the list-valued fields (or Absent).
IntegritySignal(p, m, concerns, values_checked, conflicts) ==
    LET meta ==
            MkDict(<<Field(m, "analysis_model", PyStr(""), PyStr("analysis_model")),
                     Field(m, "analysis_duration_ms", PyFloat(0), PyFloat(450)),
                     Field(m, "thinking_tokens_original", PyInt(0), PyInt(1200)),
                     Field(m, "truncated", PyBool(FALSE), PyBool(TRUE)),
                     Field(m, "extraction_confidence", PyFloat(0), PyFloat(1))>>)
        conscience ==
            MkDict(<<Field(m, "consultation_depth", PyStr(""), PyStr("standard")),
                     <<"values_checked", values_checked>>,
                     <<"conflicts", conflicts>> >>)
        cp ==
            MkDict(<<Field(m, "checkpoint_id", PyStr(""), PyStr("checkpoint_id")),
                     Field(m, "verdict", PyStr(""), PyStr("clear")),
                     Field(m, "agent_id", PyStr(""), PyStr("agent_id")),
                     Field(m, "card_id", PyStr(""), PyStr("card_id")),
                     Field(m, "session_id", PyStr(""), PyStr("session_id")),
                     Field(m, "thinking_block_hash", PyStr(""), PyStr("sha256")),
                     <<"concerns", concerns>>,
                     <<"analysis_metadata", Parent(p["analysis_metadata"], meta)>>,
                     <<"conscience_context", Parent(p["conscience_context"], conscience)>> >>)
        win ==
            MkDict(<<Field(m, "size", PyInt(0), PyInt(5)),
                     Field(m, "integrity_ratio", PyFloat(0), PyFloat(8)),
                     Field(m, "drift_alert_active", PyBool(FALSE), PyBool(TRUE))>>)
    IN  MkDict(<< <<"checkpoint", Parent(p["checkpoint"], cp)>>,
                  Field(m, "proceed", PyBool(FALSE), PyBool(TRUE)),
                  Field(m, "recommended_action", PyStr(""), PyStr("recommended_action")),
                  <<"window_summary", Parent(p["window_summary"], win)>> >>)

\* The signal with its checkpoint's verdict replaced.
WithVerdict(signal, verdict) ==
    PyDict([signal.v EXCEPT !["checkpoint"] =
                PyDict([@.v EXCEPT !["verdict"] = verdict])])

IntegritySignals ==
    {None, EmptyDict}
      \cup {IntegritySignal(p, Uniform(IntegrityFields, sm),
                            FullEntries("category", 1), Absent, StrList(2)) :
              p \in [IntegrityParents -> ParentModes], sm \in ScalarModes}
      \cup {IntegritySignal(Uniform(IntegrityParents, "full"), m, Absent, StrList(1), None) :
              m \in OddOneOut(IntegrityFields)}
      \cup {IntegritySignal(Uniform(IntegrityParents, "full"),
                            Uniform(IntegrityFields, "truthy"), c, StrList(1), Absent) :
              c \in ListChoices(Entries("category"))}
      \cup {IntegritySignal(Uniform(IntegrityParents, "full"),
                            Uniform(IntegrityFields, "absent"),
                            FullEntries("category", 1),
                            v, c) :
              v \in StrLists, c \in StrLists}
      \cup {IntegritySignal(Uniform(IntegrityParents, "full"),
                            Uniform(IntegrityFields, sm),
                            FullEntries("category", n), StrList(1), StrList(0)) :
              sm \in {"falsy", "truthy"}, n \in 0..MaxLen}
      \cup {WithVerdict(IntegritySignal(Uniform(IntegrityParents, "full"),
                                        Uniform(IntegrityFields, sm),
                                        FullEntries("category", 1), StrList(1), StrList(0)),
                        PyStr("boundary_violation")) :
              sm \in {"falsy", "truthy"}}

VerificationFields == {"verified", "similarity_score", "trace_id", "card_id",
                       "duration_ms"}

\* types.py VerificationResultInput: pm is the mode of verification_metadata.
VerificationResult(pm, m, violations, warnings, checks_performed) ==
    LET meta ==
            MkDict(<<Field(m, "duration_ms", PyInt(0), PyInt(120)),
                     <<"checks_performed", checks_performed>> >>)
    IN  MkDict(<<Field(m, "verified", PyBool(FALSE), PyBool(TRUE)),
                 Field(m, "similarity_score", PyFloat(0), PyFloat(75)),
                 <<"violations", violations>>,
                 <<"warnings", warnings>>,
                 Field(m, "trace_id", PyStr(""), PyStr("trace_id")),
                 Field(m, "card_id", PyStr(""), PyStr("card_id")),
                 <<"verification_metadata", Parent(pm, meta)>> >>)

\* types.py WarningInput: {type, description}.
Warning == DictOf(<< <<"type", PyStr("style")>>, <<"description", PyStr("warning")>> >>)

VerificationResults ==
    {None, EmptyDict}
      \cup {VerificationResult(pm, m, Absent, StrList(0), StrList(2)) :
              pm \in ParentModes, m \in OddOneOut(VerificationFields)}
      \cup {VerificationResult("full", Uniform(VerificationFields, "truthy"),
                               v, PyList(<<Warning>>), Absent) :
              v \in ListChoices(Entries("type"))}
      \cup {VerificationResult(pm, Uniform(VerificationFields, "absent"),
                               FullEntries("type", 1),
                               w, c) :
              pm \in {"full", "empty"}, w \in ListChoices({Warning}), c \in StrLists}

CoherenceFields == {"compatible", "score", "proceed"}

\* types.py CoherenceResultInput: pm is the mode of value_alignment.
CoherenceResult(pm, m, matched, conflicts) ==
    LET value_alignment ==
            MkDict(<< <<"matched", matched>>, <<"conflicts", conflicts>> >>)
    IN  MkDict(<<Field(m, "compatible", PyBool(FALSE), PyBool(TRUE)),
                 Field(m, "score", PyFloat(0), PyFloat(9)),
                 Field(m, "proceed", PyBool(FALSE), PyBool(TRUE)),
                 <<"value_alignment", Parent(pm, value_alignment)>> >>)

CoherenceResults ==
    {None, EmptyDict}
      \cup {CoherenceResult(pm, m, StrList(2), StrList(0)) :
              pm \in ParentModes, m \in OddOneOut(CoherenceFields)}
      \cup {CoherenceResult("full", Uniform(CoherenceFields, "truthy"), a, c) :
              a \in StrLists, c \in StrLists}

AlertFields == {"alert_type", "agent_id", "card_id", "similarity_score",
                "drift_direction", "recommendation"}

\* types.py DriftAlertInput: pm is the mode of the nested analysis object.
DriftAlert(pm, m) ==
    LET analysis ==
            MkDict(<<Field(m, "similarity_score", PyFloat(0), PyFloat(3)),
                     Field(m, "drift_direction", PyStr(""), PyStr("drift_direction"))>>)
    IN  MkDict(<<Field(m, "alert_type", PyStr(""), PyStr("alert_type")),
                 Field(m, "agent_id", PyStr(""), PyStr("agent_id")),
                 Field(m, "card_id", PyStr(""), PyStr("card_id")),
                 <<"analysis", Parent(pm, analysis)>>,
                 Field(m, "recommendation", PyStr(""), PyStr("recommendation"))>>)

DriftAlerts ==
    {None}
      \cup {DriftAlert(pm, Uniform(AlertFields, "truthy")) : pm \in ParentModes}
      \cup {DriftAlert("full", Uniform(AlertFields, sm)) : sm \in ScalarModes}
      \cup {DriftAlert("full", [Uniform(AlertFields, "absent") EXCEPT ![f] = "truthy"]) :
              f \in {"alert_type", "similarity_score"}}

\* The alerts argument: None or a list of at most MaxLen alerts.
AlertLists == ListChoices(DriftAlerts) \ {Absent}

\* The traces_analyzed argument: left out (Absent), None or an int.
TracesAnalyzed == {Absent, None, PyInt(0), PyInt(5)}

\* Signals handed to record_integrity_metrics: the fields it reads, each
\* Absent, None or a value.
MetricSignal(verdict, concerns, duration, ratio, active) ==
    MkDict(<< <<"checkpoint",
                MkDict(<< <<"verdict", verdict>>,
                          <<"concerns", concerns>>,
                          <<"analysis_metadata",
                            MkDict(<< <<"analysis_duration_ms", duration>> >>)>> >>)>>,
              <<"window_summary",
                MkDict(<< <<"integrity_ratio", ratio>>,
                          <<"drift_alert_active", active>> >>)>> >>)

MetricSignals ==
    {None, EmptyDict}
      \cup {MetricSignal(v, FullEntries("category", 1), PyFloat(450), PyFloat(0),
                         PyBool(TRUE)) :
              v \in {Absent, None, PyStr(""), PyStr("clear"), PyStr("review_needed")}}
      \cup {MetricSignal(PyStr("clear"), c, PyFloat(450), PyFloat(0), PyBool(TRUE)) :
              c \in {Absent, None, EmptyList, FullEntries("category", MaxLen)}}
      \cup {MetricSignal(PyStr("clear"), FullEntries("category", 1), d, PyFloat(0),
                         PyBool(TRUE)) :
              d \in {Absent, None, PyFloat(0)}}
      \cup {MetricSignal(PyStr("clear"), FullEntries("category", 1), PyFloat(450), r,
                         PyBool(TRUE)) :
              r \in {Absent, None, PyFloat(8)}}
      \cup {MetricSignal(PyStr("clear"), FullEntries("category", 1), PyFloat(450),
                         PyFloat(0), a) :
              a \in {Absent, None, PyBool(FALSE)}}

\* Results handed to record_verification_metrics, a coherence-shaped one
\* among them.
MetricResult(verified, violations, duration, score) ==
    MkDict(<< <<"verified", verified>>,
              <<"violations", violations>>,
              <<"verification_metadata", MkDict(<< <<"duration_ms", duration>> >>)>>,
              <<"score", score>> >>)

MetricResults ==
    {None, EmptyDict,
     CoherenceResult("full", Uniform(CoherenceFields, "truthy"), StrList(1), StrList(0))}
      \cup {MetricResult(v, FullEntries("type", 1), PyInt(120), Absent) :
              v \in {Absent, None, PyBool(FALSE), PyBool(TRUE)}}
      \cup {MetricResult(PyBool(TRUE), x, PyInt(120), Absent) :
              x \in {Absent, None, EmptyList, FullEntries("type", MaxLen)}}
      \cup {MetricResult(PyBool(FALSE), FullEntries("type", 1), d, Absent) :
              d \in {Absent, None, PyInt(0)}}
      \cup {MetricResult(PyBool(TRUE), FullEntries("type", 1), PyInt(120), sc) :
              sc \in {None, PyFloat(0), PyFloat(9)}}

\* Arguments of a direct build_span call: at most two attributes, each None,
\* a falsy value or a truthy one, and no events, an empty list or one event.
AttributeValues ==
    {None, PyBool(FALSE), PyInt(0), PyFloat(0), PyStr(""),
     PyBool(TRUE), PyInt(7), PyStr("x")}

BuildSpanArgs ==
    {[span_name |-> "span", attributes |-> a, events |-> e] :
        a \in {<<>>} \cup {<< <<"k1", v1>> >> : v1 \in AttributeValues}
               \cup {<< <<"k1", v1>>, <<"k2", v2>> >> :
                        v1 \in AttributeValues, v2 \in AttributeValues},
        e \in {None, EmptyList,
               PyList(<<DictOf(<< <<"name", PyStr("e")>>,
                                  <<"attributes", DictOf(<< <<"a", PyStr("")>> >>)>> >>),
                        DictOf(<< <<"name", PyStr("f")>> >>)>>)}}

\* ------------------------------------------------------------------- state

Pending == [t |-> "pending"]

VARIABLES
    last,                \* the last call made: its operation, input and outcome
    history,             \* the instrument / uninstrument calls made so far
    aip_client,          \* what importing aip.client gives
    aap_verification,    \* what importing aap.verification gives
    check,               \* the binding of aip.client.AIPClient.check
    verify_trace,        \* the binding of aap.verification.verify_trace
    _original_check,     \* AIPInstrumentor._original_check
    _original_verify,    \* AIPInstrumentor._original_verify
    _aip_client_cls,     \* AIPInstrumentor._aip_client_cls
    _aap_verify_module,  \* AIPInstrumentor._aap_verify_module
    inflight,            \* the wrapper a caller has entered and not yet run
    measurements,        \* the add / record calls made on the instruments
    metric_calls         \* the metric recorder calls made so far

adapter == <<_original_check, _original_verify, _aip_client_cls, _aap_verify_module>>
targets == <<aip_client, aap_verification, check, verify_trace>>
meter == <<measurements, metric_calls>>
vars == <<last, history, targets, adapter, inflight, meter>>


\* ----------------------------------------------------------- instrumentor.py

\* The first try block of _instrument: the bindings and saved state it
\* leaves, and the exception that escapes it (None when none does).
\*   client: what importlib.import_module("aip.client") gives
\*   chk:    the binding of AIPClient.check
WrapCheck(client, chk, orig, cls) ==
    IF client = "ImportError" \/ client = "no AIPClient"
    THEN [check |-> chk, _original_check |-> orig, _aip_client_cls |-> cls,
          raised |-> None]
    ELSE IF chk = "missing"
    THEN [check |-> chk, _original_check |-> orig, _aip_client_cls |-> "AIPClient",
          raised |-> Raise("AttributeError")]
    ELSE [check |-> "wrapped_check", _original_check |-> chk,
          _aip_client_cls |-> "AIPClient", raised |-> None]

\* The second try block of _instrument.
WrapVerify(module, vt, orig, mod) ==
    IF module = "ImportError" \/ vt = "missing"
    THEN [verify_trace |-> vt, _original_verify |-> orig, _aap_verify_module |-> mod]
    ELSE [verify_trace |-> "wrapped_verify", _original_verify |-> vt,
          _aap_verify_module |-> "aap.verification"]

\* Mutant: the restore without its guard.
RestoreCheck_unguarded(chk, orig, cls) ==
    [check |-> orig, _original_check |-> "None", _aip_client_cls |-> "None"]

\* The first if block of _uninstrument.
RestoreCheck(chk, orig, cls) ==
    IF cls # "None" /\ orig # "None"
    THEN [check |-> orig, _original_check |-> "None", _aip_client_cls |-> "None"]
    ELSE [check |-> chk, _original_check |-> orig, _aip_client_cls |-> cls]

\* The saved state cleared while the wrapper stays bound.
RestoreVerify_keeps_wrapper(vt, orig, mod) ==
    IF mod # "None" /\ orig # "None"
    THEN [verify_trace |-> vt, _original_verify |-> "None",
          _aap_verify_module |-> "None"]
    ELSE [verify_trace |-> vt, _original_verify |-> orig, _aap_verify_module |-> mod]

\* The second if block of _uninstrument.
RestoreVerify(vt, orig, mod) ==
    IF mod # "None" /\ orig # "None"
    THEN [verify_trace |-> orig, _original_verify |-> "None",
          _aap_verify_module |-> "None"]
    ELSE [verify_trace |-> vt, _original_verify |-> orig, _aap_verify_module |-> mod]

\* What one call of a wrapper does: how often the original callable ran, what
\* the call returned (or raised) and the spans it recorded.
\*   saved:    AIPInstrumentor._original_check / _original_verify, read when
\*             the wrapper runs
\*   wrapper:  the name of the wrapper itself
\*   result:   what the original callable returns (or raises) when it runs
\*   recorded: what the record mapper gives for result
Wrapped(saved, wrapper, result, recorded) ==
    IF saved = "None"
    THEN [original_calls |-> 0, out |-> Raise("TypeError"), spans |-> <<>>]
    ELSE IF saved = wrapper
    THEN [original_calls |-> 0, out |-> Raise("RecursionError"), spans |-> <<>>]
    ELSE IF IsRaise(result) \/ ~Truthy(result)
    THEN [original_calls |-> 1, out |-> result, spans |-> <<>>]
    ELSE IF IsRaise(recorded)
    THEN [original_calls |-> 1, out |-> recorded, spans |-> <<>>]
    ELSE [original_calls |-> 1, out |-> result, spans |-> <<recorded>>]

\* Mutant: "if result is not None" for "if result", which records a span for
\* an empty result.
wrapped_check_not_none(saved, result) ==
    IF IsRaise(result) \/ IsNone(result) \/ Truthy(result)
    THEN Wrapped(saved, "wrapped_check", result, record_integrity_check(result))
    ELSE [original_calls |-> 1, out |-> result,
          spans |-> <<record_integrity_check(result)>>]

wrapped_check(saved, result) ==
    Wrapped(saved, "wrapped_check", result, record_integrity_check(result))

wrapped_verify(saved, result) ==
    Wrapped(saved, "wrapped_verify", result, record_verification(result))

\* A call of the callable bound to a target.
Invoke(bound, saved, result) ==
    CASE bound = "wrapped_check" -> wrapped_check(saved, result)
      [] bound = "wrapped_verify" -> wrapped_verify(saved, result)
      [] OTHER -> [original_calls |-> 1, out |-> result, spans |-> <<>>]

\* What the original callables return: a record of the shape of types.py,
\* None or an empty record, a value that is no mapping, or an exception.
CheckResults ==
    {None, EmptyDict, PyStr("ok"), Raise("RuntimeError"),
     IntegritySignal(Uniform(IntegrityParents, "full"), Uniform(IntegrityFields, "truthy"),
                     FullEntries("category", 1),
                     StrList(1), StrList(0)),
     IntegritySignal(Uniform(IntegrityParents, "absent"), Uniform(IntegrityFields, "falsy"),
                     Absent, Absent, Absent),
     IntegritySignal(Uniform(IntegrityParents, "full"), Uniform(IntegrityFields, "null"),
                     PyList(<<None>>), Absent, Absent)}

VerifyResults ==
    {None, EmptyDict, PyStr("ok"), Raise("RuntimeError"),
     VerificationResult("full", Uniform(VerificationFields, "truthy"),
                        FullEntries("type", 1),
                        PyList(<<Warning>>), StrList(2)),
     VerificationResult("absent", Uniform(VerificationFields, "falsy"),
                        Absent, Absent, Absent),
     VerificationResult("full", Uniform(VerificationFields, "null"),
                        PyList(<<None>>), Absent, Absent)}

\* -------------------------------------------------------- package import
\* aip_otel_exporter/__init__.py: what importing the package executes, and
\* the lazy lookup of AIPInstrumentor.

\* The distributions a Python environment holds: opentelemetry-api, which
\* the package depends on, and the optional opentelemetry-instrumentation
\* (which itself depends on opentelemetry-api).
Environments ==
    {{}, {"opentelemetry-api"}, {"opentelemetry-api", "opentelemetry-instrumentation"}}

\* The modules the import statements at the top of a module name, in order.
Imports(module) ==
    CASE module = "aip_otel_exporter"
           -> <<"aip_otel_exporter.manual", "aip_otel_exporter.span_builder">>
      [] module = "aip_otel_exporter.manual"
           -> <<"typing", "opentelemetry.trace", "aip_otel_exporter.attributes",
                "aip_otel_exporter.span_builder">>
      [] module = "aip_otel_exporter.span_builder"
           -> <<"typing", "opentelemetry.context", "opentelemetry.trace">>
      [] module = "aip_otel_exporter.instrumentor"
           -> <<"importlib", "typing", "opentelemetry.trace",
                "opentelemetry.instrumentation.instrumentor",
                "aip_otel_exporter.manual">>
      [] OTHER -> <<>>

\* The distribution that provides a module, "" for the standard library and
\* for this package.
Provider(module) ==
    CASE module \in {"opentelemetry.trace", "opentelemetry.context"} -> "opentelemetry-api"
      [] module = "opentelemetry.instrumentation.instrumentor"
           -> "opentelemetry-instrumentation"
      [] OTHER -> ""

\* The names a module of this package binds once its body has run.
Names(module) ==
    CASE module = "aip_otel_exporter"
           -> {"record_coherence", "record_drift", "record_integrity_check",
               "record_verification", "build_span", "AIPOTelRecorder"}
      [] module = "aip_otel_exporter.instrumentor" -> {"AIPInstrumentor"}
      [] OTHER -> {}

\* import module: ModuleNotFoundError when no installed distribution
\* provides it, the first exception of its own imports otherwise, or the
\* module.
RECURSIVE import_module(_, _)
import_module(module, installed) ==
    IF Provider(module) # "" /\ Provider(module) \notin installed
    THEN Raise("ModuleNotFoundError")
    ELSE LET imported == [i \in DOMAIN Imports(module) |->
                             import_module(Imports(module)[i], installed)]
         IN  IF IsRaise(FirstRaise(imported)) THEN FirstRaise(imported)
             ELSE [t |-> "module", v |-> [name |-> module, names |-> Names(module)]]

\* except ImportError, taken without its subclass ModuleNotFoundError.
IsImportError_exact(x) == IsRaise(x) /\ x.v = "ImportError"

\* except ImportError: ModuleNotFoundError is a subclass of ImportError.
IsImportError(x) == IsRaise(x) /\ x.v \in {"ImportError", "ModuleNotFoundError"}

\* ImportError("AIPInstrumentor requires the 'opentelemetry-instrumentation'
\* package. Install it with: pip install opentelemetry-instrumentation")
MissingInstrumentation ==
    [t |-> "raise", v |-> "ImportError",
     msg |-> <<"AIPInstrumentor requires the '", "opentelemetry-instrumentation",
               "' package. Install it with: pip install ",
               "opentelemetry-instrumentation">>]

\* Module-level __getattr__(name), reached for a name the package does not
\* bind.
__getattr__(name, installed) ==
    IF name = "AIPInstrumentor"
    THEN LET module == import_module("aip_otel_exporter.instrumentor", installed)
         IN  IF IsImportError(module) THEN MissingInstrumentation
             ELSE IF IsRaise(module) THEN module
             ELSE [t |-> "class", v |-> "AIPInstrumentor"]
    ELSE Raise("AttributeError")

\* Names looked up on the package that it does not bind at import.
LazyNames == {"AIPInstrumentor", "AIPInstrumenter", "create_aip_metrics"}

\* -------------------------------------------------------------------- Init
\* A behaviour is either one direct call of a mapper on a drawn record (the
\* mappers read nothing of the adapter's state), or a session with the
\* adapter in some state of the two external modules.

DirectCalls ==
    {[op |-> "record_integrity_check", input |-> x, out |-> Pending] :
        x \in IntegritySignals}
      \cup {[op |-> "record_verification", input |-> x, out |-> Pending] :
              x \in VerificationResults}
      \cup {[op |-> "record_coherence", input |-> x, out |-> Pending] :
              x \in CoherenceResults}
      \cup {[op |-> "record_drift",
             input |-> [alerts |-> a, traces_analyzed |-> n], out |-> Pending] :
              a \in AlertLists, n \in TracesAnalyzed}
      \cup {[op |-> "build_span", input |-> x, out |-> Pending] : x \in BuildSpanArgs}
      \cup {[op |-> "create_aip_metrics", input |-> x, out |-> Pending, created |-> <<>>] :
              x \in MeterProviders}
      \cup {[op |-> "import", input |-> [installed |-> e], out |-> Pending] :
              e \in Environments}
      \cup {[op |-> "__getattr__", input |-> [name |-> n, installed |-> e],
             out |-> Pending] :
              n \in LazyNames, e \in {x \in Environments : "opentelemetry-api" \in x}}

Idle == [op |-> "none"]

Init ==
    /\ history = <<>>
    /\ inflight = "none"
    /\ measurements = <<>>
    /\ metric_calls = <<>>
    /\ _original_check = "None"
    /\ _original_verify = "None"
    /\ _aip_client_cls = "None"
    /\ _aap_verify_module = "None"
    /\ \/ /\ last = Idle
          /\ aip_client \in {"ImportError", "no AIPClient", "AIPClient"}
          /\ check \in IF aip_client = "AIPClient"
                       THEN {"missing", "original_check"} ELSE {"missing"}
          /\ aap_verification \in {"ImportError", "aap.verification"}
          /\ verify_trace \in IF aap_verification = "aap.verification"
                              THEN {"missing", "original_verify"} ELSE {"missing"}
       \/ /\ last \in DirectCalls
          /\ aip_client = "AIPClient"
          /\ check = "original_check"
          /\ aap_verification = "aap.verification"
          /\ verify_trace = "original_verify"

\* ----------------------------------------------------------------- actions

RecordIntegrityCheck ==
    /\ last.op = "record_integrity_check"
    /\ last.out = Pending
    /\ last' = [last EXCEPT !.out = record_integrity_check(last.input)]
    /\ UNCHANGED <<history, targets, adapter, inflight, meter>>

RecordVerification ==
    /\ last.op = "record_verification"
    /\ last.out = Pending
    /\ last' = [last EXCEPT !.out = record_verification(last.input)]
    /\ UNCHANGED <<history, targets, adapter, inflight, meter>>

RecordCoherence ==
    /\ last.op = "record_coherence"
    /\ last.out = Pending
    /\ last' = [last EXCEPT !.out = record_coherence(last.input)]
    /\ UNCHANGED <<history, targets, adapter, inflight, meter>>

\* def record_drift(tracer, alerts, traces_analyzed: int = 0)
RecordDrift ==
    /\ last.op = "record_drift"
    /\ last.out = Pending
    /\ last' = [last EXCEPT !.out =
                  record_drift(last.input.alerts,
                               IF last.input.traces_analyzed = Absent
                               THEN PyInt(0) ELSE last.input.traces_analyzed)]
    /\ UNCHANGED <<history, targets, adapter, inflight, meter>>

BuildSpan ==
    /\ last.op = "build_span"
    /\ last.out = Pending
    /\ last' = [last EXCEPT !.out = build_span(last.input.span_name,
                                               last.input.attributes,
                                               last.input.events)]
    /\ UNCHANGED <<history, targets, adapter, inflight, meter>>

CreateAipMetrics ==
    /\ last.op = "create_aip_metrics"
    /\ last.out = Pending
    /\ LET made == create_aip_metrics(last.input)
       IN  last' = [last EXCEPT !.out = made.returned, !.created = made.created]
    /\ UNCHANGED <<history, targets, adapter, inflight, meter>>

\* import aip_otel_exporter
ImportPackage ==
    /\ last.op = "import"
    /\ last.out = Pending
    /\ last' = [last EXCEPT !.out = import_module("aip_otel_exporter", last.input.installed)]
    /\ UNCHANGED <<history, targets, adapter, inflight, meter>>

\* aip_otel_exporter.<name>, for a name the package does not bind.
GetAttr ==
    /\ last.op = "__getattr__"
    /\ last.out = Pending
    /\ last' = [last EXCEPT !.out = __getattr__(last.input.name, last.input.installed)]
    /\ UNCHANGED <<history, targets, adapter, inflight, meter>>

\* The instrument map is in hand: create_aip_metrics has returned it.
InMetricsSession ==
    \/ last.op = "create_aip_metrics" /\ last.out # Pending
    \/ last.op \in {"record_integrity_metrics", "record_verification_metrics"}

\* The map the caller retains and hands to the recorders.
MetricsDict == IF last.op = "create_aip_metrics" THEN last.out ELSE last.metrics_dict

RecordIntegrityMetrics ==
    /\ InMetricsSession
    /\ Len(metric_calls) < MaxCalls
    /\ \E signal \in MetricSignals :
         LET r == record_integrity_metrics(MetricsDict, signal)
         IN  /\ measurements' = measurements \o r.made
             /\ metric_calls' = Append(metric_calls,
                                       [op |-> "record_integrity_metrics",
                                        input |-> signal])
             /\ last' = [op |-> "record_integrity_metrics", input |-> signal,
                         out |-> r.out, made |-> r.made,
                         metrics_dict |-> MetricsDict]
    /\ UNCHANGED <<history, targets, adapter, inflight>>

RecordVerificationMetrics ==
    /\ InMetricsSession
    /\ Len(metric_calls) < MaxCalls
    /\ \E result \in MetricResults :
         LET r == record_verification_metrics(MetricsDict, result)
         IN  /\ measurements' = measurements \o r.made
             /\ metric_calls' = Append(metric_calls,
                                       [op |-> "record_verification_metrics",
                                        input |-> result])
             /\ last' = [op |-> "record_verification_metrics", input |-> result,
                         out |-> r.out, made |-> r.made,
                         metrics_dict |-> MetricsDict]
    /\ UNCHANGED <<history, targets, adapter, inflight>>

InSession == last.op \in {"none", "_instrument", "_uninstrument",
                          "AIPClient.check", "verify_trace",
                          "wrapped_check", "wrapped_verify"}

\* AIPInstrumentor._instrument
Instrument ==
    /\ InSession
    /\ Len(history) < MaxOps
    /\ LET c == WrapCheck(aip_client, check, _original_check, _aip_client_cls)
           v == IF IsRaise(c.raised)
                THEN [verify_trace |-> verify_trace,
                      _original_verify |-> _original_verify,
                      _aap_verify_module |-> _aap_verify_module]
                ELSE WrapVerify(aap_verification, verify_trace, _original_verify,
                                _aap_verify_module)
       IN  /\ check' = c.check
           /\ _original_check' = c._original_check
           /\ _aip_client_cls' = c._aip_client_cls
           /\ verify_trace' = v.verify_trace
           /\ _original_verify' = v._original_verify
           /\ _aap_verify_module' = v._aap_verify_module
           /\ last' = [op |-> "_instrument", out |-> c.raised]
    /\ history' = Append(history, "instrument")
    /\ UNCHANGED <<aip_client, aap_verification, inflight, meter>>

\* AIPInstrumentor._uninstrument
Uninstrument ==
    /\ InSession
    /\ Len(history) < MaxOps
    /\ LET c == RestoreCheck(check, _original_check, _aip_client_cls)
           v == RestoreVerify(verify_trace, _original_verify, _aap_verify_module)
       IN  /\ check' = c.check
           /\ _original_check' = c._original_check
           /\ _aip_client_cls' = c._aip_client_cls
           /\ verify_trace' = v.verify_trace
           /\ _original_verify' = v._original_verify
           /\ _aap_verify_module' = v._aap_verify_module
    /\ last' = [op |-> "_uninstrument", out |-> None]
    /\ history' = Append(history, "uninstrument")
    /\ UNCHANGED <<aip_client, aap_verification, inflight, meter>>

\* A caller's AIPClient(...).check(...), the original returning result.
CallCheck ==
    /\ InSession
    /\ check # "missing"
    /\ \E result \in CheckResults :
         LET r == Invoke(check, _original_check, result)
         IN  last' = [op |-> "AIPClient.check", bound |-> check, result |-> result,
                      original_calls |-> r.original_calls, out |-> r.out,
                      spans |-> r.spans]
    /\ UNCHANGED <<history, targets, adapter, inflight, meter>>

\* A caller's aap.verification.verify_trace(...), the original returning result.
CallVerify ==
    /\ InSession
    /\ verify_trace # "missing"
    /\ \E result \in VerifyResults :
         LET r == Invoke(verify_trace, _original_verify, result)
         IN  last' = [op |-> "verify_trace", bound |-> verify_trace, result |-> result,
                      original_calls |-> r.original_calls, out |-> r.out,
                      spans |-> r.spans]
    /\ UNCHANGED <<history, targets, adapter, inflight, meter>>

\* A caller gets hold of the wrapper bound to a target: it looks the target
\* up and keeps the reference, or has entered the wrapper and not yet run
\* its first statement.
HoldWrapper ==
    /\ InSession
    /\ inflight = "none"
    /\ \/ check = "wrapped_check" /\ inflight' = "wrapped_check"
       \/ verify_trace = "wrapped_verify" /\ inflight' = "wrapped_verify"
    /\ UNCHANGED <<last, history, targets, adapter, meter>>

\* The held wrapper runs: its body reads the saved original now.
RunHeldWrapper ==
    /\ InSession
    /\ inflight # "none"
    /\ \E result \in IF inflight = "wrapped_check" THEN CheckResults ELSE VerifyResults :
         LET saved == IF inflight = "wrapped_check"
                      THEN _original_check ELSE _original_verify
             r == Invoke(inflight, saved, result)
         IN  last' = [op |-> inflight, bound |-> inflight, result |-> result,
                      original_calls |-> r.original_calls, out |-> r.out,
                      spans |-> r.spans]
    /\ inflight' = "none"
    /\ UNCHANGED <<history, targets, adapter, meter>>

Next ==
    \/ RecordIntegrityCheck
    \/ RecordVerification
    \/ RecordCoherence
    \/ RecordDrift
    \/ BuildSpan
    \/ CreateAipMetrics
    \/ ImportPackage
    \/ GetAttr
    \/ RecordIntegrityMetrics
    \/ RecordVerificationMetrics
    \/ Instrument
    \/ Uninstrument
    \/ CallCheck
    \/ CallVerify
    \/ HoldWrapper
    \/ RunHeldWrapper

Spec == Init /\ [][Next]_vars

\* ------------------------------------------------------------- observers
\* What a reader of a finished span sees, and where in an input record a
\* field lives.

MapperOps == {"record_integrity_check", "record_verification",
              "record_coherence", "record_drift"}

\* The last call is a finished call of operation op.
Done(op) == last.op = op /\ last.out # Pending

HasAttr(span, key) ==
    \E i \in DOMAIN span.v : span.v[i].call = "set_attribute" /\ span.v[i].key = key

AttrValue(span, key) ==
    span.v[CHOOSE i \in DOMAIN span.v :
             /\ span.v[i].call = "set_attribute" /\ span.v[i].key = key
             /\ \A j \in DOMAIN span.v :
                  (span.v[j].call = "set_attribute" /\ span.v[j].key = key) => j <= i].value

AllEvents(span) == SelectSeq(span.v, LAMBDA c : c.call = "add_event")

Events(span, name) ==
    SelectSeq(span.v, LAMBDA c : c.call = "add_event" /\ c.name = PyStr(name))

\* The field of record x at the path of keys, Absent when the field or one
\* of its parents is missing from x or is no record.
RECURSIVE Lookup(_, _)
Lookup(x, path) ==
    IF path = <<>> THEN x
    ELSE IF x.t = "dict" /\ Head(path) \in DOMAIN x.v
         THEN Lookup(x.v[Head(path)], Tail(path))
         ELSE Absent

Missing(x) == x = Absent \/ x = None

\* The number of entries of a list field, 0 for a missing one.
Entries0(x) == IF Missing(x) THEN 0 ELSE Len(x.v)

\* The list whose entries become events, per mapper.
EventSource(op, input) ==
    CASE op = "record_integrity_check" -> Lookup(input, <<"checkpoint", "concerns">>)
      [] op = "record_verification" -> Lookup(input, <<"violations">>)
      [] op = "record_drift" -> input.alerts
      [] OTHER -> Absent

\* The input holds a None where a list entry (a concern, a violation, an
\* alert) belongs.
HasNullEntry(op, input) ==
    LET xs == EventSource(op, input)
    IN  ~Missing(xs) /\ \E i \in DOMAIN xs.v : xs.v[i] = None

\* The measurements among ms made by call ("add" or "record") on the
\* instrument of the given name.
On(ms, name, call) ==
    SelectSeq(ms, LAMBDA m : m.instrument = name /\ m.call = call)

RECURSIVE Sum(_)
Sum(ms) == IF ms = <<>> THEN 0 ELSE Head(ms).value.v + Sum(Tail(ms))

\* What the counter of the given name holds under a label set: the sum of
\* the values added under it so far.
Counter(name, labels) ==
    Sum(SelectSeq(On(measurements, name, "add"), LAMBDA m : m.labels = labels))

\* The calls of a metric recorder made so far.
MetricCalls(op) == SelectSeq(metric_calls, LAMBDA c : c.op = op)

\* ------------------------------------------------------------------ claims

CountSources ==
    {[op |-> "record_integrity_check", key |-> AIP_INTEGRITY_CONCERNS_COUNT,
      path |-> <<"checkpoint", "concerns">>],
     [op |-> "record_integrity_check", key |-> AIP_CONSCIENCE_VALUES_CHECKED_COUNT,
      path |-> <<"checkpoint", "conscience_context", "values_checked">>],
     [op |-> "record_integrity_check", key |-> AIP_CONSCIENCE_CONFLICTS_COUNT,
      path |-> <<"checkpoint", "conscience_context", "conflicts">>],
     [op |-> "record_verification", key |-> AAP_VERIFICATION_VIOLATIONS_COUNT,
      path |-> <<"violations">>],
     [op |-> "record_verification", key |-> AAP_VERIFICATION_WARNINGS_COUNT,
      path |-> <<"warnings">>],
     [op |-> "record_coherence", key |-> AAP_COHERENCE_MATCHED_COUNT,
      path |-> <<"value_alignment", "matched">>],
     [op |-> "record_coherence", key |-> AAP_COHERENCE_CONFLICT_COUNT,
      path |-> <<"value_alignment", "conflicts">>]}

\* C1: on every span of record_integrity_check, record_verification and
\* record_coherence, each of the seven count attributes is absent when its
\* source list is absent or None, and otherwise present and equal to the
\* length of the list (0 for an empty list).
C1_CountAttributes ==
    \A c \in CountSources :
        (Done(c.op) /\ IsSpan(last.out)) =>
            LET src == Lookup(last.input, c.path)
            IN  IF Missing(src)
                THEN ~HasAttr(last.out, c.key)
                ELSE /\ HasAttr(last.out, c.key)
                     /\ AttrValue(last.out, c.key) = PyInt(Len(src.v))

\* A coherence span for matched of MaxLen entries and an empty conflicts list.
C1_Witness ==
    /\ Done("record_coherence") /\ IsSpan(last.out)
    /\ Lookup(last.input, <<"value_alignment", "matched">>) = StrList(MaxLen)
    /\ Lookup(last.input, <<"value_alignment", "conflicts">>) = EmptyList
    /\ AttrValue(last.out, AAP_COHERENCE_MATCHED_COUNT) = PyInt(MaxLen)
    /\ AttrValue(last.out, AAP_COHERENCE_CONFLICT_COUNT) = PyInt(0)

\* C2: a mapper called on a record in which any fields or nested objects
\* are missing or None (the record itself or the alert list included) does
\* not raise and returns a span.
C2_MappersTotal ==
    \A op \in MapperOps :
        (Done(op) /\ ~HasNullEntry(op, last.input)) => IsSpan(last.out)

\* record_integrity_check(None) and a signal whose checkpoint is None.
C2_Witness ==
    /\ Done("record_integrity_check") /\ IsSpan(last.out)
    /\ last.input # None
    /\ Lookup(last.input, <<"checkpoint">>) = None
    /\ Lookup(last.input, <<"window_summary">>) = None

\* The adapter's two-state machine used as documented: instrument is never
\* called twice in a row, and the last transition was instrument.
Instrumented ==
    /\ history # <<>>
    /\ history[Len(history)] = "instrument"
    /\ \A i \in 1..(Len(history) - 1) :
         ~(history[i] = "instrument" /\ history[i + 1] = "instrument")

Targets ==
    {[op |-> "AIPClient.check", wrapper |-> "wrapped_check",
      mapper |-> "record_integrity_check", span |-> SPAN_AIP_INTEGRITY_CHECK],
     [op |-> "verify_trace", wrapper |-> "wrapped_verify",
      mapper |-> "record_verification", span |-> SPAN_AAP_VERIFY_TRACE]}

\* The original's result is what the external callable is specified to
\* return: None, or a record of the mapper's input shape.
InContract(mapper, result) ==
    \/ result = None
    \/ result.t = "dict" /\ ~HasNullEntry(mapper, result)

SpanName(span) == span.v[1].name

C4_InstrumentUninstrumentRestores ==
    history = <<"instrument", "uninstrument">> =>
        /\ _original_check = "None"
        /\ _original_verify = "None"
        /\ _aip_client_cls = "None"
        /\ _aap_verify_module = "None"
        /\ check \in {"original_check", "missing"}
        /\ verify_trace \in {"original_verify", "missing"}
        /\ (last.op \in {"AIPClient.check", "verify_trace"} => last.spans = <<>>)

CheckUnresolvable == aip_client # "AIPClient" \/ check = "missing"
VerifyUnresolvable == aap_verification # "aap.verification" \/ verify_trace = "missing"

\* C5: a first instrument never raises; a target that cannot be resolved
\* keeps its binding and its saved state, and the other target is wrapped
\* whenever it can be resolved.
C5_TargetsIndependent ==
    (last.op = "_instrument" /\ history = <<"instrument">>) =>
        /\ ~IsRaise(last.out)
        /\ CheckUnresolvable =>
             /\ check = "missing"
             /\ _original_check = "None"
             /\ _aip_client_cls = "None"
        /\ VerifyUnresolvable =>
             /\ verify_trace = "missing"
             /\ _original_verify = "None"
             /\ _aap_verify_module = "None"
        /\ ~CheckUnresolvable =>
             check = "wrapped_check" /\ _original_check = "original_check"
        /\ ~VerifyUnresolvable =>
             verify_trace = "wrapped_verify" /\ _original_verify = "original_verify"

\* C6: an uninstrument step does not raise, and for a target that is not
\* wrapped when it runs it changes neither the target's binding nor the
\* adapter's saved state for that target.
C6_UninstrumentNoOp ==
    [][history' = Append(history, "uninstrument") =>
         /\ ~IsRaise(last'.out)
         /\ check # "wrapped_check" =>
              /\ check' = check
              /\ _original_check' = _original_check
              /\ _aip_client_cls' = _aip_client_cls
         /\ verify_trace # "wrapped_verify" =>
              /\ verify_trace' = verify_trace
              /\ _original_verify' = _original_verify
              /\ _aap_verify_module' = _aap_verify_module]_vars

\* uninstrument twice in a row after an instrument that could not resolve
\* aap.verification.
C6_Witness ==
    /\ last.op = "_uninstrument"
    /\ history = <<"instrument", "uninstrument", "uninstrument">>
    /\ aap_verification = "ImportError"
    /\ check = "original_check"

\* The scalar attributes of an integrity span and the fields they copy.
IntegrityScalars ==
    {<<AIP_INTEGRITY_CHECKPOINT_ID, <<"checkpoint", "checkpoint_id">> >>,
     <<AIP_INTEGRITY_VERDICT, <<"checkpoint", "verdict">> >>,
     <<AIP_INTEGRITY_AGENT_ID, <<"checkpoint", "agent_id">> >>,
     <<AIP_INTEGRITY_CARD_ID, <<"checkpoint", "card_id">> >>,
     <<AIP_INTEGRITY_SESSION_ID, <<"checkpoint", "session_id">> >>,
     <<AIP_INTEGRITY_THINKING_HASH, <<"checkpoint", "thinking_block_hash">> >>,
     <<AIP_INTEGRITY_PROCEED, <<"proceed">> >>,
     <<AIP_INTEGRITY_RECOMMENDED_ACTION, <<"recommended_action">> >>,
     <<AIP_INTEGRITY_ANALYSIS_MODEL, <<"checkpoint", "analysis_metadata", "analysis_model">> >>,
     <<AIP_INTEGRITY_ANALYSIS_DURATION_MS,
       <<"checkpoint", "analysis_metadata", "analysis_duration_ms">> >>,
     <<AIP_INTEGRITY_THINKING_TOKENS,
       <<"checkpoint", "analysis_metadata", "thinking_tokens_original">> >>,
     <<AIP_INTEGRITY_TRUNCATED, <<"checkpoint", "analysis_metadata", "truncated">> >>,
     <<AIP_INTEGRITY_EXTRACTION_CONFIDENCE,
       <<"checkpoint", "analysis_metadata", "extraction_confidence">> >>,
     <<AIP_CONSCIENCE_CONSULTATION_DEPTH,
       <<"checkpoint", "conscience_context", "consultation_depth">> >>,
     <<AIP_WINDOW_SIZE, <<"window_summary", "size">> >>,
     <<AIP_WINDOW_INTEGRITY_RATIO, <<"window_summary", "integrity_ratio">> >>,
     <<AIP_WINDOW_DRIFT_ALERT_ACTIVE, <<"window_summary", "drift_alert_active">> >>}

SetAttributeCalls(span) == SelectSeq(span.v, LAMBDA c : c.call = "set_attribute")

\* C7: build_span sets an attribute exactly when the value supplied for it
\* is not None, and with that value: False, 0, 0.0 and "" are set as they
\* are, and None is never turned into a value.  The scalar attributes of an
\* integrity span follow their source fields in the same way.
C7_NonNullAttributesSet ==
    /\ Done("build_span") =>
         LET attrs == last.input.attributes
         IN  /\ \A i \in DOMAIN attrs :
                   IF attrs[i][2] = None
                   THEN ~HasAttr(last.out, attrs[i][1])
                   ELSE /\ HasAttr(last.out, attrs[i][1])
                        /\ AttrValue(last.out, attrs[i][1]) = attrs[i][2]
             /\ Len(SetAttributeCalls(last.out))
                  = Cardinality({i \in DOMAIN attrs : attrs[i][2] # None})
    /\ (Done("record_integrity_check") /\ IsSpan(last.out)) =>
         \A a \in IntegrityScalars :
             LET src == Lookup(last.input, a[2])
             IN  IF Missing(src)
                 THEN ~HasAttr(last.out, a[1])
                 ELSE /\ HasAttr(last.out, a[1])
                      /\ AttrValue(last.out, a[1]) = src

\* build_span given False for one attribute and None for another.
C7_Witness ==
    /\ Done("build_span")
    /\ last.input.attributes = << <<"k1", PyBool(FALSE)>>, <<"k2", None>> >>
    /\ AttrValue(last.out, "k1") = PyBool(FALSE)
    /\ ~HasAttr(last.out, "k2")

\* The record x with every field that is None, and every nested object left
\* empty by that, taken out; list entries stay, with their own fields
\* treated the same way.
RECURSIVE Strip(_)
Strip(x) ==
    CASE x.t = "dict" ->
           LET kept == {k \in DOMAIN x.v :
                          x.v[k] # None /\ Strip(x.v[k]) # EmptyDict}
           IN  PyDict([k \in kept |-> Strip(x.v[k])])
      [] x.t = "list" ->
           PyList([i \in DOMAIN x.v |->
                     IF x.v[i].t = "dict"
                     THEN PyDict([k \in {f \in DOMAIN x.v[i].v : x.v[i].v[f] # None} |->
                                    Strip(x.v[i].v[k])])
                     ELSE x.v[i]])
      [] OTHER -> x

\* What the mapper op gives for the input in.
MapperOutput(op, in) ==
    CASE op = "record_integrity_check" -> record_integrity_check(in)
      [] op = "record_verification" -> record_verification(in)
      [] op = "record_coherence" -> record_coherence(in)
      [] op = "record_drift" ->
           record_drift(in.alerts,
                        IF in.traces_analyzed = Absent
                        THEN PyInt(0) ELSE in.traces_analyzed)

\* C8: a mapper gives the same span for a record as for the record with its
\* None fields and its empty nested objects left out, the sub-fields of
\* concern, violation and alert entries included.
C8_NullSameAsAbsent ==
    /\ \A op \in MapperOps \ {"record_drift"} :
         Done(op) => last.out = MapperOutput(op, Strip(last.input))
    /\ Done("record_drift") =>
         last.out = MapperOutput("record_drift",
                                 [last.input EXCEPT !.alerts = Strip(@)])

\* C9: every drift span carries alerts_count, equal to the number of alerts
\* and to 0 for an empty list and for None.
C9_AlertsCountAlwaysSet ==
    (Done("record_drift") /\ IsSpan(last.out)) =>
        /\ HasAttr(last.out, AAP_DRIFT_ALERTS_COUNT)
        /\ AttrValue(last.out, AAP_DRIFT_ALERTS_COUNT)
             = PyInt(Entries0(last.input.alerts))

\* record_drift(None).
C9_Witness ==
    /\ Done("record_drift") /\ IsSpan(last.out)
    /\ last.input.alerts = None
    /\ AttrValue(last.out, AAP_DRIFT_ALERTS_COUNT) = PyInt(0)

\* C10: a span carries one aip.concern event per concern, one aap.violation
\* event per violation and nothing for warnings, one aap.drift_alert event
\* per alert, and a coherence span carries no event.
C10_EventCounts ==
    /\ (Done("record_integrity_check") /\ IsSpan(last.out)) =>
         Len(Events(last.out, EVENT_AIP_CONCERN))
           = Entries0(Lookup(last.input, <<"checkpoint", "concerns">>))
    /\ (Done("record_verification") /\ IsSpan(last.out)) =>
         /\ Len(Events(last.out, EVENT_AAP_VIOLATION))
              = Entries0(Lookup(last.input, <<"violations">>))
         /\ Len(AllEvents(last.out)) = Entries0(Lookup(last.input, <<"violations">>))
    /\ (Done("record_drift") /\ IsSpan(last.out)) =>
         Len(Events(last.out, EVENT_AAP_DRIFT_ALERT)) = Entries0(last.input.alerts)
    /\ (Done("record_coherence") /\ IsSpan(last.out)) => AllEvents(last.out) = <<>>

\* A verification span for MaxLen violations and one warning.
C10_Witness ==
    /\ Done("record_verification") /\ IsSpan(last.out)
    /\ Entries0(Lookup(last.input, <<"violations">>)) = MaxLen
    /\ Entries0(Lookup(last.input, <<"warnings">>)) = 1
    /\ Len(AllEvents(last.out)) = MaxLen

\* The keys of the entries of a mapper's event list, and the name of the
\* events made from them.
EntryKeys(op) ==
    IF op = "record_integrity_check" THEN {"category", "severity", "description"}
    ELSE {"type", "severity", "description"}

EntryEventName(op) ==
    IF op = "record_integrity_check" THEN EVENT_AIP_CONCERN ELSE EVENT_AAP_VIOLATION

\* C11: every aip.concern event carries exactly category, severity and
\* description, every aap.violation event exactly type, severity and
\* description, and a sub-field its entry lacks is carried as "".
C11_EntryEventsThreeKeys ==
    \A op \in {"record_integrity_check", "record_verification"} :
        (Done(op) /\ IsSpan(last.out)) =>
            LET evs == Events(last.out, EntryEventName(op))
                xs == EventSource(op, last.input)
            IN  \A i \in DOMAIN evs :
                    /\ evs[i].attributes.t = "dict"
                    /\ DOMAIN evs[i].attributes.v = EntryKeys(op)
                    /\ \A k \in EntryKeys(op) :
                         k \notin DOMAIN xs.v[i].v
                           => evs[i].attributes.v[k] = PyStr("")

\* An integrity span for a concern that has a category only.
C11_Witness ==
    /\ Done("record_integrity_check") /\ IsSpan(last.out)
    /\ LET evs == Events(last.out, EVENT_AIP_CONCERN)
           xs == EventSource("record_integrity_check", last.input)
       IN  /\ Len(evs) >= 1
           /\ DOMAIN xs.v[1].v = {"category"}
           /\ evs[1].attributes.v["severity"] = PyStr("")
           /\ evs[1].attributes.v["category"] = PyStr("category")

\* The attributes of a drift alert event and the sub-fields they copy.
AlertSources ==
    {<<"alert_type", <<"alert_type">> >>,
     <<"agent_id", <<"agent_id">> >>,
     <<"card_id", <<"card_id">> >>,
     <<"similarity_score", <<"analysis", "similarity_score">> >>,
     <<"drift_direction", <<"analysis", "drift_direction">> >>,
     <<"recommendation", <<"recommendation">> >>}

\* C12: the event of the i-th alert carries each of the six attributes
\* exactly when the alert has a non-null value for its sub-field, 0 and ""
\* included, and with that value; every alert has its event, with or
\* without an analysis object.
C12_DriftEventAttributes ==
    (Done("record_drift") /\ IsSpan(last.out)) =>
        LET evs == Events(last.out, EVENT_AAP_DRIFT_ALERT)
            n == Entries0(last.input.alerts)
        IN  /\ Len(evs) = n
            /\ \A i \in 1..n :
                 /\ evs[i].attributes.t = "dict"
                 /\ DOMAIN evs[i].attributes.v \subseteq {a[1] : a \in AlertSources}
                 /\ \A a \in AlertSources :
                      LET src == Lookup(last.input.alerts.v[i], a[2])
                      IN  IF Missing(src)
                          THEN a[1] \notin DOMAIN evs[i].attributes.v
                          ELSE /\ a[1] \in DOMAIN evs[i].attributes.v
                               /\ evs[i].attributes.v[a[1]] = src

\* A drift span for an alert with every top-level field and no analysis.
C12_Witness ==
    /\ Done("record_drift") /\ IsSpan(last.out)
    /\ Entries0(last.input.alerts) >= 1
    /\ last.input.alerts.v[1].t = "dict"
    /\ "analysis" \notin DOMAIN last.input.alerts.v[1].v
    /\ DOMAIN Events(last.out, EVENT_AAP_DRIFT_ALERT)[1].attributes.v
         = {"alert_type", "agent_id", "card_id", "recommendation"}

\* A drift span for an alert whose sub-fields are all "" or 0.
C12_WitnessFalsy ==
    /\ Done("record_drift") /\ IsSpan(last.out)
    /\ Entries0(last.input.alerts) >= 1
    /\ Lookup(last.input.alerts.v[1], <<"analysis", "similarity_score">>) = PyFloat(0)
    /\ Cardinality(DOMAIN Events(last.out, EVENT_AAP_DRIFT_ALERT)[1].attributes.v) = 6

\* C13: an integrity span carries one aip.drift_alert event, without
\* attributes, when window_summary.drift_alert_active is True, and none when
\* it is False, None or missing, or window_summary is.
C13_DriftAlertEvent ==
    (Done("record_integrity_check") /\ IsSpan(last.out)) =>
        LET evs == Events(last.out, EVENT_AIP_DRIFT_ALERT)
            active == Lookup(last.input, <<"window_summary", "drift_alert_active">>)
        IN  IF active = PyBool(TRUE)
            THEN /\ Len(evs) = 1
                 /\ evs[1].attributes = EmptyDict
            ELSE evs = <<>>

\* An integrity span for a window with an active drift alert.
C13_Witness ==
    /\ Done("record_integrity_check") /\ IsSpan(last.out)
    /\ Lookup(last.input, <<"window_summary", "drift_alert_active">>) = PyBool(TRUE)
    /\ Len(Events(last.out, EVENT_AIP_DRIFT_ALERT)) = 1

\* An integrity span for a window whose drift_alert_active is False.
C13_WitnessInactive ==
    /\ Done("record_integrity_check") /\ IsSpan(last.out)
    /\ Lookup(last.input, <<"window_summary", "drift_alert_active">>) = PyBool(FALSE)
    /\ Events(last.out, EVENT_AIP_DRIFT_ALERT) = <<>>

\* The text of the one-piece strings of xs with ", " between neighbours.
CommaSpaced(xs) ==
    [t |-> "str",
     v |-> [k \in 1..(2 * Len(xs) - 1) |->
              IF k % 2 = 1 THEN xs[(k + 1) \div 2].v[1] ELSE ", "]]

\* C14: a verification span carries checks_performed, with the entries of
\* verification_metadata.checks_performed in list order and ", " between
\* them, when that list is present and not empty, and carries no
\* checks_performed attribute when the list is empty, None or missing.
C14_ChecksPerformedJoined ==
    (Done("record_verification") /\ IsSpan(last.out)) =>
        LET cp == Lookup(last.input, <<"verification_metadata", "checks_performed">>)
        IN  IF Entries0(cp) = 0
            THEN ~HasAttr(last.out, AAP_VERIFICATION_CHECKS_PERFORMED)
            ELSE /\ HasAttr(last.out, AAP_VERIFICATION_CHECKS_PERFORMED)
                 /\ AttrValue(last.out, AAP_VERIFICATION_CHECKS_PERFORMED)
                      = CommaSpaced(cp.v)
                 /\ cp.v = <<PyStr("a"), PyStr("b")>> =>
                      AttrValue(last.out, AAP_VERIFICATION_CHECKS_PERFORMED).v
                        = <<"a", ", ", "b">>

\* A verification span for checks_performed = ["a", "b"].
C14_Witness ==
    /\ Done("record_verification") /\ IsSpan(last.out)
    /\ Lookup(last.input, <<"verification_metadata", "checks_performed">>)
         = PyList(<<PyStr("a"), PyStr("b")>>)
    /\ HasAttr(last.out, AAP_VERIFICATION_CHECKS_PERFORMED)

\* A verification span for checks_performed = [].
C14_WitnessEmpty ==
    /\ Done("record_verification") /\ IsSpan(last.out)
    /\ Lookup(last.input, <<"verification_metadata", "checks_performed">>) = EmptyList
    /\ ~HasAttr(last.out, AAP_VERIFICATION_CHECKS_PERFORMED)

StatusCalls(span) == SelectSeq(span.v, LAMBDA c : c.call = "set_status")

\* The record handed to the last mapper call tells of a bad outcome: a
\* failed verification, a verdict other than clear, proceed false, or an
\* active drift alert.
BadOutcome ==
    \/ /\ last.op = "record_verification"
       /\ Lookup(last.input, <<"verified">>) = PyBool(FALSE)
    \/ /\ last.op = "record_integrity_check"
       /\ \/ Lookup(last.input, <<"proceed">>) = PyBool(FALSE)
          \/ Lookup(last.input, <<"window_summary", "drift_alert_active">>) = PyBool(TRUE)
          \/ Lookup(last.input, <<"checkpoint", "verdict">>) = PyStr("boundary_violation")
    \/ /\ last.op = "record_coherence"
       /\ Lookup(last.input, <<"proceed">>) = PyBool(FALSE)
    \/ /\ last.op = "record_drift"
       /\ Entries0(last.input.alerts) > 0

\* C15: the status of every span a mapper returns is set once, to OK,
\* whatever the record holds.
C15_StatusAlwaysOk ==
    \A op \in MapperOps :
        (Done(op) /\ IsSpan(last.out)) =>
            /\ Len(StatusCalls(last.out)) = 1
            /\ StatusCalls(last.out)[1].status = "OK"

\* A span for a record that tells of a failed verification.
C15_Witness ==
    /\ Done("record_verification") /\ IsSpan(last.out)
    /\ BadOutcome
    /\ StatusCalls(last.out)[1].status = "OK"

\* The place of a call in the life of a span.
Phase(c) ==
    CASE c.call = "start_span" -> 1
      [] c.call = "set_attribute" -> 2
      [] c.call = "add_event" -> 3
      [] c.call = "set_status" -> 4
      [] c.call = "end" -> 5

CallsOf(span, call) == SelectSeq(span.v, LAMBDA c : c.call = call)

\* C16: the span build_span returns was started once, then had its
\* attributes set, then its events added, then its status set, and was
\* ended once, as the last call made on it.
C16_SpanLifecycleOrder ==
    (last.op \in MapperOps \cup {"build_span"} /\ last.out # Pending /\ IsSpan(last.out)) =>
        LET calls == last.out.v
        IN  /\ Len(CallsOf(last.out, "start_span")) = 1
            /\ Len(CallsOf(last.out, "set_status")) = 1
            /\ Len(CallsOf(last.out, "end")) = 1
            /\ calls[1].call = "start_span"
            /\ calls[Len(calls)].call = "end"
            /\ \A i \in 1..(Len(calls) - 1) : Phase(calls[i]) <= Phase(calls[i + 1])

\* A direct build_span call with two attributes and two events.
C16_Witness ==
    /\ Done("build_span") /\ IsSpan(last.out)
    /\ Len(CallsOf(last.out, "set_attribute")) = 2
    /\ Len(CallsOf(last.out, "add_event")) = 2
    /\ last.out.v[Len(last.out.v)].call = "end"

\* The span name of each mapper.
FixedName(op) ==
    CASE op = "record_integrity_check" -> SPAN_AIP_INTEGRITY_CHECK
      [] op = "record_verification" -> SPAN_AAP_VERIFY_TRACE
      [] op = "record_coherence" -> SPAN_AAP_CHECK_COHERENCE
      [] op = "record_drift" -> SPAN_AAP_DETECT_DRIFT

\* None or {}.
IsEmptyRecord(x) == x.t = "none" \/ (x.t = "dict" /\ DOMAIN x.v = {})

\* The last call handed its mapper an empty or absent record: None or {}
\* for a record, None or [] with traces_analyzed left out for drift.
EmptyCall(op) ==
    /\ Done(op)
    /\ IF op = "record_drift"
       THEN Entries0(last.input.alerts) = 0 /\ last.input.traces_analyzed = Absent
       ELSE IsEmptyRecord(last.input)

\* One started and ended span of the mapper's name, with status OK and no
\* event.
BareSpan(op, span) ==
    /\ IsSpan(span)
    /\ Len(CallsOf(span, "start_span")) = 1
    /\ Len(CallsOf(span, "end")) = 1
    /\ SpanName(span) = PyStr(FixedName(op))
    /\ Len(StatusCalls(span)) = 1
    /\ StatusCalls(span)[1].status = "OK"
    /\ AllEvents(span) = <<>>

\* C17: for an empty or absent record each mapper returns one finished
\* span of its fixed name with status OK and no event; the span has no
\* attribute for integrity, verification and coherence, and exactly
\* alerts_count = 0 and traces_analyzed = 0 for drift.
C17_EmptyRecordSpan ==
    \A op \in MapperOps :
        EmptyCall(op) =>
            /\ BareSpan(op, last.out)
            /\ IF op = "record_drift"
               THEN /\ Len(SetAttributeCalls(last.out)) = 2
                    /\ HasAttr(last.out, AAP_DRIFT_ALERTS_COUNT)
                    /\ AttrValue(last.out, AAP_DRIFT_ALERTS_COUNT) = PyInt(0)
                    /\ HasAttr(last.out, AAP_DRIFT_TRACES_ANALYZED)
                    /\ AttrValue(last.out, AAP_DRIFT_TRACES_ANALYZED) = PyInt(0)
               ELSE SetAttributeCalls(last.out) = <<>>

\* record_coherence({}).
C17_Witness ==
    /\ EmptyCall("record_coherence")
    /\ last.input.t = "dict"
    /\ BareSpan("record_coherence", last.out)

\* Attribute alias is on the span exactly when attribute source is, with
\* the same value.
Mirrors(span, alias, source) ==
    /\ HasAttr(span, alias) <=> HasAttr(span, source)
    /\ HasAttr(span, source) => AttrValue(span, alias) = AttrValue(span, source)

\* C18: on an integrity span gen_ai.evaluation.verdict mirrors
\* aip.integrity.verdict and gen_ai.evaluation.score mirrors
\* aip.window.integrity_ratio, in presence and in value.
C18_AliasesMirrorSources ==
    (Done("record_integrity_check") /\ IsSpan(last.out)) =>
        /\ Mirrors(last.out, GEN_AI_EVALUATION_VERDICT, AIP_INTEGRITY_VERDICT)
        /\ Mirrors(last.out, GEN_AI_EVALUATION_SCORE, AIP_WINDOW_INTEGRITY_RATIO)

\* An integrity span with a verdict and no integrity_ratio.
C18_Witness ==
    /\ Done("record_integrity_check") /\ IsSpan(last.out)
    /\ HasAttr(last.out, AIP_INTEGRITY_VERDICT)
    /\ AttrValue(last.out, GEN_AI_EVALUATION_VERDICT) = PyStr("clear")
    /\ ~HasAttr(last.out, AIP_WINDOW_INTEGRITY_RATIO)
    /\ ~HasAttr(last.out, GEN_AI_EVALUATION_SCORE)

\* The attribute keys of an integrity span, by the part of the signal
\* they are read from.
CheckpointKeys ==
    {AIP_INTEGRITY_CHECKPOINT_ID, AIP_INTEGRITY_VERDICT, AIP_INTEGRITY_AGENT_ID,
     AIP_INTEGRITY_CARD_ID, AIP_INTEGRITY_SESSION_ID, AIP_INTEGRITY_THINKING_HASH}

SignalKeys ==
    {AIP_INTEGRITY_PROCEED, AIP_INTEGRITY_RECOMMENDED_ACTION, AIP_INTEGRITY_CONCERNS_COUNT}

AnalysisKeys ==
    {AIP_INTEGRITY_ANALYSIS_MODEL, AIP_INTEGRITY_ANALYSIS_DURATION_MS,
     AIP_INTEGRITY_THINKING_TOKENS, AIP_INTEGRITY_TRUNCATED,
     AIP_INTEGRITY_EXTRACTION_CONFIDENCE}

ConscienceKeys ==
    {AIP_CONSCIENCE_CONSULTATION_DEPTH, AIP_CONSCIENCE_VALUES_CHECKED_COUNT,
     AIP_CONSCIENCE_CONFLICTS_COUNT}

WindowKeys == {AIP_WINDOW_SIZE, AIP_WINDOW_INTEGRITY_RATIO, AIP_WINDOW_DRIFT_ALERT_ACTIVE}

AliasKeys == {GEN_AI_EVALUATION_VERDICT, GEN_AI_EVALUATION_SCORE}

AttrKeys(span) ==
    {SetAttributeCalls(span)[i].key : i \in DOMAIN SetAttributeCalls(span)}

\* Every field an integrity attribute is read from is in the signal and is
\* not None.
FullySourced(signal) ==
    /\ \A a \in IntegrityScalars : ~Missing(Lookup(signal, a[2]))
    /\ \A c \in CountSources :
         c.op = "record_integrity_check" => ~Missing(Lookup(signal, c.path))

OfKind(instruments, k) == SelectSeq(instruments, LAMBDA x : x.v.kind = k)

\* The instruments in the dict a create_aip_metrics call returned.
Returned(d) == {d.v[k] : k \in DOMAIN d.v}

\* C20, as stated: a create_aip_metrics call creates and returns exactly 8
\* instruments, 5 counters and 3 histograms.
C20_EightInstruments ==
    Done("create_aip_metrics") =>
        /\ Len(last.created) = 8
        /\ Cardinality(DOMAIN last.out.v) = 8
        /\ Len(OfKind(last.created, "counter")) = 5
        /\ Len(OfKind(last.created, "histogram")) = 3

\* C20, amended: a create_aip_metrics call creates exactly 9 instruments, 5
\* counters and 4 histograms, of 9 different names, and returns each of
\* them under a key of its own.
C20_NineInstruments ==
    Done("create_aip_metrics") =>
        /\ Len(last.created) = 9
        /\ Len(OfKind(last.created, "counter")) = 5
        /\ Len(OfKind(last.created, "histogram")) = 4
        /\ Cardinality({last.created[i].v.name : i \in DOMAIN last.created}) = 9
        /\ Cardinality(DOMAIN last.out.v) = 9
        /\ Returned(last.out) = {last.created[i] : i \in DOMAIN last.created}

\* A finished create_aip_metrics call made with a meter provider, whose
\* dict holds the coherence_score histogram.
C20_Witness ==
    /\ Done("create_aip_metrics")
    /\ last.input # None
    /\ "coherence_score" \in DOMAIN last.out.v
    /\ last.out.v["coherence_score"].v.kind = "histogram"

\* The verdict a record_integrity_metrics call is made for: "unknown" when
\* the checkpoint or its verdict is missing, null or empty.
CallVerdict(input) ==
    LET v == Lookup(input, <<"checkpoint", "verdict">>)
    IN  IF Missing(v) \/ v = PyStr("") THEN PyStr("unknown") ELSE v

VerdictsSeen ==
    {PyStr("unknown"), PyStr("clear"), PyStr("review_needed"), PyStr(""), None}
        \cup {CallVerdict(metric_calls[i].input) : i \in DOMAIN metric_calls}

\* C21: after any sequence of record_integrity_metrics calls on one
\* instrument map, the integrity_checks counter under {verdict: v} equals
\* the number of calls whose verdict was v, calls without a verdict counted
\* under "unknown"; every call adds exactly 1 under exactly one label.
C21_ChecksCountedPerVerdict ==
    LET checks == On(measurements, METRIC_AIP_INTEGRITY_CHECKS_TOTAL, "add")
        calls == MetricCalls("record_integrity_metrics")
    IN  /\ \A v \in VerdictsSeen :
             Counter(METRIC_AIP_INTEGRITY_CHECKS_TOTAL, DictOf(<< <<"verdict", v>> >>))
                 = Len(SelectSeq(calls, LAMBDA c : CallVerdict(c.input) = v))
        /\ Len(checks) = Len(calls)
        /\ \A i \in DOMAIN checks :
             /\ checks[i].value = PyInt(1)
             /\ checks[i].labels = DictOf(<< <<"verdict", CallVerdict(calls[i].input)>> >>)
        /\ Done("record_integrity_metrics") =>
             /\ last.out = None
             /\ Len(On(last.made, METRIC_AIP_INTEGRITY_CHECKS_TOTAL, "add")) = 1
        /\ On(measurements, METRIC_AIP_INTEGRITY_CHECKS_TOTAL, "record") = <<>>

\* Two calls, "clear" then "review_needed", leave 1 under each label.
C21_Witness ==
    /\ Len(metric_calls) = 2
    /\ metric_calls[1].op = "record_integrity_metrics"
    /\ metric_calls[2].op = "record_integrity_metrics"
    /\ Lookup(metric_calls[1].input, <<"checkpoint", "verdict">>) = PyStr("clear")
    /\ Lookup(metric_calls[2].input, <<"checkpoint", "verdict">>) = PyStr("review_needed")
    /\ Counter(METRIC_AIP_INTEGRITY_CHECKS_TOTAL, VerdictLabels(PyStr("clear"))) = 1
    /\ Counter(METRIC_AIP_INTEGRITY_CHECKS_TOTAL, VerdictLabels(PyStr("review_needed"))) = 1

\* A call without a verdict, after a "clear" one, is counted under "unknown".
C21_WitnessUnknown ==
    /\ Len(metric_calls) = 2
    /\ metric_calls[2].op = "record_integrity_metrics"
    /\ metric_calls[2].input = None
    /\ Counter(METRIC_AIP_INTEGRITY_CHECKS_TOTAL, VerdictLabels(PyStr("unknown"))) = 1
    /\ Counter(METRIC_AIP_INTEGRITY_CHECKS_TOTAL, VerdictLabels(PyStr("clear"))) = 1

\* The measurements a value makes on a histogram: itself, once, when it is
\* present, none when it is missing.
Recorded(name, value, labels) ==
    IF Missing(value) THEN <<>>
    ELSE <<[instrument |-> name, call |-> "record", value |-> value, labels |-> labels]>>

\* C22: one record_integrity_metrics call adds len(concerns) to the concerns
\* counter under the call's verdict label only when concerns is present and
\* non-empty, records analysis_duration and integrity_ratio exactly when the
\* value is present (0 included), and adds 1 to drift_alerts exactly when
\* window_summary.drift_alert_active is true.
C22_IntegrityCallMeasurements ==
    Done("record_integrity_metrics") =>
        LET labels == DictOf(<< <<"verdict", CallVerdict(last.input)>> >>)
            concerns == Lookup(last.input, <<"checkpoint", "concerns">>)
            duration == Lookup(last.input,
                               <<"checkpoint", "analysis_metadata", "analysis_duration_ms">>)
            ratio == Lookup(last.input, <<"window_summary", "integrity_ratio">>)
            active == Lookup(last.input, <<"window_summary", "drift_alert_active">>)
        IN  /\ On(last.made, METRIC_AIP_CONCERNS_TOTAL, "add")
                 = IF Entries0(concerns) > 0
                   THEN <<[instrument |-> METRIC_AIP_CONCERNS_TOTAL, call |-> "add",
                           value |-> PyInt(Len(concerns.v)), labels |-> labels]>>
                   ELSE <<>>
            /\ On(last.made, METRIC_AIP_ANALYSIS_DURATION, "record")
                 = Recorded(METRIC_AIP_ANALYSIS_DURATION, duration, labels)
            /\ On(last.made, METRIC_AIP_WINDOW_INTEGRITY_RATIO, "record")
                 = Recorded(METRIC_AIP_WINDOW_INTEGRITY_RATIO, ratio, None)
            /\ On(last.made, METRIC_AIP_DRIFT_ALERTS_TOTAL, "add")
                 = IF active = PyBool(TRUE)
                   THEN <<[instrument |-> METRIC_AIP_DRIFT_ALERTS_TOTAL, call |-> "add",
                           value |-> PyInt(1), labels |-> None]>>
                   ELSE <<>>
            /\ measurements = SubSeq(measurements, 1, Len(measurements) - Len(last.made))
                                 \o last.made

\* A call with MaxLen concerns, an integrity_ratio of 0 and an active drift
\* alert: the ratio 0 is recorded.
C22_Witness ==
    /\ Done("record_integrity_metrics")
    /\ Entries0(Lookup(last.input, <<"checkpoint", "concerns">>)) = MaxLen
    /\ Lookup(last.input, <<"window_summary", "integrity_ratio">>) = PyFloat(0)
    /\ Lookup(last.input, <<"window_summary", "drift_alert_active">>) = PyBool(TRUE)
    /\ Len(On(last.made, METRIC_AIP_WINDOW_INTEGRITY_RATIO, "record")) = 1
    /\ Len(On(last.made, METRIC_AIP_DRIFT_ALERTS_TOTAL, "add")) = 1

\* A call with an empty concerns list and one with drift_alert_active False:
\* no update of the concerns counter, none of drift_alerts.
C22_WitnessNoUpdate ==
    /\ Done("record_integrity_metrics")
    /\ \/ Lookup(last.input, <<"checkpoint", "concerns">>) = EmptyList
       \/ Lookup(last.input, <<"window_summary", "drift_alert_active">>) = PyBool(FALSE)
    /\ Len(last.made) = 4

\* The label a record_verification_metrics call is made for.
CallResult(input) ==
    LET verified == Lookup(input, <<"verified">>)
    IN  IF verified = PyBool(TRUE) THEN PyStr("pass")
        ELSE IF verified = PyBool(FALSE) THEN PyStr("fail")
        ELSE PyStr("unknown")

\* C23: every record_verification_metrics call adds exactly 1 to the
\* verifications counter under result = "pass" when verified is true, "fail"
\* when it is present and false, "unknown" when it is absent or null; the
\* violation count (list non-empty) and the duration (present) are recorded
\* under the same label.
C23_VerificationCallMeasurements ==
    Done("record_verification_metrics") =>
        LET labels == DictOf(<< <<"result", CallResult(last.input)>> >>)
            violations == Lookup(last.input, <<"violations">>)
            duration == Lookup(last.input, <<"verification_metadata", "duration_ms">>)
        IN  /\ last.out = None
            /\ On(last.made, METRIC_AAP_VERIFICATIONS_TOTAL, "add")
                 = <<[instrument |-> METRIC_AAP_VERIFICATIONS_TOTAL, call |-> "add",
                      value |-> PyInt(1), labels |-> labels]>>
            /\ On(last.made, METRIC_AAP_VIOLATIONS_TOTAL, "add")
                 = IF Entries0(violations) > 0
                   THEN <<[instrument |-> METRIC_AAP_VIOLATIONS_TOTAL, call |-> "add",
                           value |-> PyInt(Len(violations.v)), labels |-> labels]>>
                   ELSE <<>>
            /\ On(last.made, METRIC_AAP_VERIFICATION_DURATION, "record")
                 = Recorded(METRIC_AAP_VERIFICATION_DURATION, duration, labels)
            /\ Counter(METRIC_AAP_VERIFICATIONS_TOTAL, labels)
                 = Len(SelectSeq(MetricCalls("record_verification_metrics"),
                                 LAMBDA c : CallResult(c.input) = CallResult(last.input)))

\* A coherence-shaped input, without a verified field, counted once under
\* "unknown".
C23_Witness ==
    /\ Done("record_verification_metrics")
    /\ Lookup(last.input, <<"verified">>) = Absent
    /\ ~Missing(Lookup(last.input, <<"compatible">>))
    /\ Len(On(last.made, METRIC_AAP_VERIFICATIONS_TOTAL, "add")) = 1
    /\ last.made[1].labels = ResultLabels(PyStr("unknown"))

\* A failed verification with a violation and a duration: three
\* measurements under "fail".
C23_WitnessFail ==
    /\ Done("record_verification_metrics")
    /\ Lookup(last.input, <<"verified">>) = PyBool(FALSE)
    /\ Len(last.made) = 3
    /\ \A i \in DOMAIN last.made : last.made[i].labels = ResultLabels(PyStr("fail"))

\* C24: record_verification_metrics records a value in the coherence_score
\* histogram if and only if the input carries a non-null score (0 included),
\* whether or not the input has a verification field.
C24_CoherenceScoreRecorded ==
    Done("record_verification_metrics") =>
        /\ On(last.made, METRIC_AAP_COHERENCE_SCORE, "record")
             = Recorded(METRIC_AAP_COHERENCE_SCORE, Lookup(last.input, <<"score">>), None)
        /\ On(last.made, METRIC_AAP_COHERENCE_SCORE, "add") = <<>>

\* A verification result that carries a score of 0: the 0 is recorded.
C24_Witness ==
    /\ Done("record_verification_metrics")
    /\ Lookup(last.input, <<"verified">>) = PyBool(TRUE)
    /\ Lookup(last.input, <<"score">>) = PyFloat(0)
    /\ On(last.made, METRIC_AAP_COHERENCE_SCORE, "record")
         = <<[instrument |-> METRIC_AAP_COHERENCE_SCORE, call |-> "record",
              value |-> PyFloat(0), labels |-> None]>>

\* A coherence-shaped input, with no verification field at all: its score
\* is recorded.
C24_WitnessCoherence ==
    /\ Done("record_verification_metrics")
    /\ \A k \in {"verified", "violations", "verification_metadata"} :
         Lookup(last.input, <<k>>) = Absent
    /\ ~Missing(Lookup(last.input, <<"score">>))
    /\ Len(On(last.made, METRIC_AAP_COHERENCE_SCORE, "record")) = 1

\* A verification result with a null score: nothing is recorded.
C24_WitnessNull ==
    /\ Done("record_verification_metrics")
    /\ Lookup(last.input, <<"score">>) = None
    /\ Lookup(last.input, <<"verified">>) = PyBool(TRUE)
    /\ On(last.made, METRIC_AAP_COHERENCE_SCORE, "record") = <<>>

\* C25: without opentelemetry-instrumentation installed, the access
\* aip_otel_exporter.AIPInstrumentor raises, at the access, an ImportError
\* whose message names 'opentelemetry-instrumentation', and returns no
\* adapter; importing the package, which binds the four mappers, needs only
\* opentelemetry-api.
C25_MissingDependencyFailsAtAccess ==
    /\ (Done("__getattr__") /\ last.input.name = "AIPInstrumentor") =>
         IF "opentelemetry-instrumentation" \in last.input.installed
         THEN last.out = [t |-> "class", v |-> "AIPInstrumentor"]
         ELSE /\ IsRaise(last.out)
              /\ last.out.v = "ImportError"
              /\ "msg" \in DOMAIN last.out
              /\ \E i \in DOMAIN last.out.msg :
                   last.out.msg[i] = "opentelemetry-instrumentation"
    /\ (Done("import") /\ "opentelemetry-api" \in last.input.installed) =>
         /\ ~IsRaise(last.out)
         /\ MapperOps \subseteq last.out.v.names
         /\ "AIPInstrumentor" \notin last.out.v.names

\* AIPInstrumentor looked up where only opentelemetry-api is installed.
C25_Witness ==
    /\ Done("__getattr__")
    /\ last.input.name = "AIPInstrumentor"
    /\ last.input.installed = {"opentelemetry-api"}
    /\ IsRaise(last.out)

\* The package imported where only opentelemetry-api is installed.
C25_WitnessImport ==
    /\ Done("import")
    /\ last.input.installed = {"opentelemetry-api"}
    /\ ~IsRaise(last.out)

\* The last transition of the adapter was uninstrument.
Uninstrumented == history # <<>> /\ history[Len(history)] = "uninstrument"

\* instrument was never called while already instrumented: no instrument
\* directly follows another.
NoReentry ==
    \A i \in 1..(Len(history) - 1) :
        ~(history[i] = "instrument" /\ history[i + 1] = "instrument")

\* Each resolvable target is bound to its original callable, and a call of
\* it runs the original once, gives what the original gives and records no
\* span.
OriginalsBound ==
    /\ (aip_client = "AIPClient" /\ check # "missing") => check = "original_check"
    /\ (aap_verification = "aap.verification" /\ verify_trace # "missing")
         => verify_trace = "original_verify"
    /\ last.op \in {"AIPClient.check", "verify_trace"} =>
         /\ last.original_calls = 1
         /\ last.out = last.result
         /\ last.spans = <<>>

\* C26, as stated: after any sequence of instrument and uninstrument
\* transitions, instrument called again while instrumented included, once the
\* last transition is uninstrument each resolvable target is bound to its
\* true original, and calling it records no span and does not fail.
C26_UninstrumentRestoresAlways == Uninstrumented => OriginalsBound

\* C26, amended: the same for the sequences in which instrument is never
\* called while already instrumented.
C26_UninstrumentRestoresWithoutReentry ==
    (Uninstrumented /\ NoReentry) => OriginalsBound

\* Two rounds of instrument, uninstrument, then a call of AIPClient.check
\* whose original returns a filled signal.
C26_Witness ==
    /\ history = <<"instrument", "uninstrument", "instrument", "uninstrument">>
    /\ last.op = "AIPClient.check"
    /\ last.bound = "original_check"
    /\ Truthy(last.result)
    /\ last.spans = <<>>

\* The mapper a wrapper feeds.
MapperOf(wrapper) ==
    IF wrapper = "wrapped_check" THEN "record_integrity_check" ELSE "record_verification"

\* C27: a wrapper installed by instrument always reaches the original: run
\* by a caller that entered it, or took a reference to it, while
\* instrumented, it invokes the original once and returns its result, also
\* when uninstrument has run in between, and never fails because the saved
\* original was cleared.
C27_WrapperReachesOriginal ==
    (last.op \in {"wrapped_check", "wrapped_verify"} /\ NoReentry) =>
        /\ last.original_calls = 1
        /\ (IsRaise(last.result) \/ InContract(MapperOf(last.op), last.result))
             => last.out = last.result

\* C28: a call of a wrapped target raises if and only if the original
\* raises: an exception of the original propagates unchanged with no span
\* recorded, and a failure while recording the span never makes the call
\* raise in place of returning the original's result.
C28_WrapperTransparentToFailures ==
    \A t \in Targets :
        (/\ last.op = t.op
         /\ Instrumented
         /\ last.bound = t.wrapper)
        => /\ last.original_calls = 1
           /\ IsRaise(last.out) <=> IsRaise(last.result)
           /\ last.out = last.result
           /\ IsRaise(last.result) => last.spans = <<>>

\* The part of C28 that the wrappers keep: the original runs once, and an
\* exception it raises comes out of the wrapper unchanged, with no span.
C28_OriginalExceptionPropagates ==
    \A t \in Targets :
        (/\ last.op = t.op
         /\ Instrumented
         /\ last.bound = t.wrapper)
        => /\ last.original_calls = 1
           /\ IsRaise(last.result) => (last.out = last.result /\ last.spans = <<>>)

\* The event carries the entry's sub-fields: under each key the value the
\* entry has for it, "" for a key the entry lacks.
CarriesEntry(ev, entry, keys) ==
    \A k \in keys :
        ev.attributes.v[k] = IF k \in DOMAIN entry.v THEN entry.v[k] ELSE PyStr("")

\* The event carries the alert's sub-fields: each non-null one, under its
\* attribute name.
CarriesAlert(ev, alert) ==
    \A a \in AlertSources :
        LET src == Lookup(alert, a[2])
        IN  IF Missing(src) THEN a[1] \notin DOMAIN ev.attributes.v
            ELSE a[1] \in DOMAIN ev.attributes.v /\ ev.attributes.v[a[1]] = src

\* C29: events are appended to a span in input order: the i-th aip.concern
\* event carries the fields of the i-th concern, the i-th aap.violation
\* event those of the i-th violation, the i-th aap.drift_alert event those of
\* the i-th alert, and on an integrity span the aip.drift_alert event comes
\* after all concern events.
C29_EventsInInputOrder ==
    /\ \A op \in {"record_integrity_check", "record_verification"} :
         (Done(op) /\ IsSpan(last.out)) =>
             LET evs == AllEvents(last.out)
                 xs == EventSource(op, last.input)
                 n == Entries0(xs)
             IN  /\ n <= Len(evs)
                 /\ \A i \in 1..n :
                      /\ evs[i].name = PyStr(EntryEventName(op))
                      /\ CarriesEntry(evs[i], xs.v[i], EntryKeys(op))
                 /\ \A i \in (n + 1)..Len(evs) :
                      /\ op = "record_integrity_check"
                      /\ evs[i].name = PyStr(EVENT_AIP_DRIFT_ALERT)
    /\ (Done("record_drift") /\ IsSpan(last.out)) =>
         LET evs == AllEvents(last.out)
         IN  /\ Len(evs) = Entries0(last.input.alerts)
             /\ \A i \in DOMAIN evs :
                  /\ evs[i].name = PyStr(EVENT_AAP_DRIFT_ALERT)
                  /\ CarriesAlert(evs[i], last.input.alerts.v[i])
    /\ (Done("build_span") /\ IsSpan(last.out) /\ Truthy(last.input.events)) =>
         LET evs == AllEvents(last.out)
         IN  /\ Len(evs) = Len(last.input.events.v)
             /\ \A i \in DOMAIN evs : evs[i].name = last.input.events.v[i].v["name"]

\* An integrity span for two different concerns and an active drift alert:
\* three events, the aip.drift_alert event last.
C29_Witness ==
    /\ Done("record_integrity_check") /\ IsSpan(last.out)
    /\ Entries0(Lookup(last.input, <<"checkpoint", "concerns">>)) = 2
    /\ Lookup(last.input, <<"checkpoint", "concerns">>).v[1]
         # Lookup(last.input, <<"checkpoint", "concerns">>).v[2]
    /\ Len(AllEvents(last.out)) = 3
    /\ AllEvents(last.out)[3].name = PyStr(EVENT_AIP_DRIFT_ALERT)

\* A drift span for two different alerts.
C29_WitnessAlerts ==
    /\ Done("record_drift") /\ IsSpan(last.out)
    /\ Entries0(last.input.alerts) = 2
    /\ last.input.alerts.v[1] # last.input.alerts.v[2]
    /\ Len(AllEvents(last.out)) = 2

\* C30: record_integrity_check, record_verification and record_drift do not
\* raise when the concerns, violations or alerts list holds a null entry:
\* the span is emitted, with one event for every entry, the null one
\* included.
C30_NullEntryTolerated ==
    \A op \in {"record_integrity_check", "record_verification", "record_drift"} :
        (Done(op) /\ HasNullEntry(op, last.input)) =>
            /\ ~IsRaise(last.out)
            /\ IsSpan(last.out)
            /\ Len(SelectSeq(AllEvents(last.out),
                             LAMBDA e : e.name # PyStr(EVENT_AIP_DRIFT_ALERT)))
                 = Entries0(EventSource(op, last.input))

====
